---- MODULE Spec2Model ----
(***************************************************************************)
(* A model of the API report generator (ApiReportGenerator), its           *)
(* visibility filter, synopsis builder, span rewrite policy and report     *)
(* orchestration, together with the report equivalence check.              *)
(*                                                                         *)
(* Each part of the program is exercised by a specification of its own:    *)
(*   SpecFilter  - ApiReportGenerator._shouldIncludeInReport               *)
(*   SpecSynopsis - ApiReportGenerator._getAedocSynopsis                   *)
(*   SpecModify  - a Span built from a declaration, rewritten by           *)
(*                 _modifySpan or _modifySpanForPreapproved, and written   *)
(*   SpecEquiv   - ApiReportGenerator.areEquivalentApiFileContents         *)
(*   Spec        - ApiReportGenerator.generateReviewFileContent            *)
(*   SpecTrim    - the final pass of generateReviewFileContent over the    *)
(*                 writer's text (_trimSpacesRegExp)                       *)
(*   SpecScoped  - ScopedCommandLineAction: onDefineParameters,            *)
(*                 _processParsedData and _execute                         *)
(*   SpecShrinkwrap - ShrinkwrapFileFactory.getShrinkwrapFile and          *)
(*                 parseShrinkwrapFile                                     *)
(* Variables that a specification does not use keep their idle value.      *)
(***************************************************************************)
EXTENDS Integers, Sequences, FiniteSets, TLC

VARIABLES
    filterDecl,     \* _shouldIncludeInReport: the declaration handed in
    filterLevels,   \* _shouldIncludeInReport: the two thresholds it is asked about
    filterResults,  \* _shouldIncludeInReport: the outcome per threshold
    tree,           \* the syntax tree of the declaration a Span is built from
    collector,      \* what the Collector answers about the tree's declarations
    entity,         \* the CollectorEntity the declaration belongs to
    releaseLevel,   \* options.releaseLevel
    spanState,      \* the span modifications, issues raised and error thrown so far
    written,        \* what span.writeModifiedText wrote
    spc,            \* where the rewrite of the declaration stands
    synopsisInput,  \* _getAedocSynopsis: the declaration's metadata and messages
    synopsisResult, \* _getAedocSynopsis: what it wrote and raised
    actualFileContent,   \* areEquivalentApiFileContents: its first argument
    expectedFileContent, \* areEquivalentApiFileContents: its second argument
    equivResult,    \* areEquivalentApiFileContents: <<>>, or the boolean it returned
    reportConfig,   \* generateReviewFileContent: options, extractorConfig, workingPackage
    entities,       \* collector.entities
    entityIndex,    \* how many entities the main loop has entered
    writer,         \* the calls made on the IndentedWriter so far
    gpc,            \* where generateReviewFileContent stands
    thrown,         \* the message of the error it threw ("" for none)
    writerText,  \* the final pass: writer.toString()
    returnedText, \* the final pass: <<>>, or the text returned
    argv,  \* the command line after the action's own parameters
    hasScopingParameters,  \* whether onDefineUnscopedParameters defined a scoping parameter
    unscopedParserOptions,  \* ScopedCommandLineAction._unscopedParserOptions
    scopedCommandLineParser,  \* ScopedCommandLineAction._scopedCommandLineParser
    remainder,  \* CommandLineAction.remainder
    scopedArgs,  \* _execute: the arguments handed to the scoped parser
    onExecuteCalls,  \* how often the onExecute of the action ran
    scopedError,  \* the error thrown by the last call on the action
    scopedPc, \* where _execute stands
    packageManager,  \* ShrinkwrapFileFactory: the package manager name handed to both factories
    shrinkwrapFilename,  \* getShrinkwrapFile: its shrinkwrapFilename argument
    shrinkwrapContent,  \* parseShrinkwrapFile: its shrinkwrapContent argument
    getResult,  \* getShrinkwrapFile: not called, what it returned, or what it threw
    parseResult  \* parseShrinkwrapFile: not called, what it returned, or what it threw

filterVars == <<filterDecl, filterLevels, filterResults>>
modifyVars == <<tree, collector, entity, releaseLevel, spanState, written, spc>>

synopsisVars == <<synopsisInput, synopsisResult>>

equivVars == <<actualFileContent, expectedFileContent, equivResult>>

reportVars == <<reportConfig, entities, entityIndex, writer, gpc, thrown>>

trimVars == <<writerText, returnedText>>

scopedVars == <<argv, hasScopingParameters, unscopedParserOptions, scopedCommandLineParser, remainder, scopedArgs, onExecuteCalls, scopedError, scopedPc>>

shrinkwrapVars == <<packageManager, shrinkwrapFilename, shrinkwrapContent, getResult, parseResult>>

vars == <<filterVars, modifyVars, synopsisVars, equivVars, reportVars, trimVars, scopedVars, shrinkwrapVars>>

(***************************************************************************)
(* Enumerations                                                            *)
(***************************************************************************)

\* enum ApiReportReleaseLevel
Untrimmed == 0
Alpha == 1
Beta == 2
Public == 3

ValidLevels == {Untrimmed, Alpha, Beta, Public}

\* enum ReleaseTag of @microsoft/api-extractor-model
ReleaseTag_None == 0
ReleaseTag_Internal == 1
ReleaseTag_Alpha == 2
ReleaseTag_Beta == 3
ReleaseTag_Public == 4

ReleaseTags ==
    {ReleaseTag_None, ReleaseTag_Internal, ReleaseTag_Alpha, ReleaseTag_Beta, ReleaseTag_Public}

\* The largest number a caller passes as releaseLevel; everything above Public
\* (and the negative MinLevel) is a value outside the enum.
MaxLevel == 5
MinLevel == 1
Levels == (0 - MinLevel) .. MaxLevel

(***************************************************************************)
(* Outcomes of a call: a returned boolean, or a thrown Error.              *)
(***************************************************************************)
Return(v) == [threw |-> FALSE, value |-> v, error |-> ""]
Throw(msg) == [threw |-> TRUE, value |-> FALSE, error |-> msg]
NotEvaluated == [threw |-> FALSE, value |-> FALSE, error |-> "not evaluated"]

(***************************************************************************)
(* ApiReportGenerator._shouldIncludeInReport                               *)
(***************************************************************************)

\* A filter whose Beta case demands the tag to be exactly @beta.
shouldIncludeInReport_BetaExact(isPrivate, effectiveReleaseTag, level) ==
    IF isPrivate THEN Return(FALSE)
    ELSE LET releaseTag == IF effectiveReleaseTag = ReleaseTag_None
                           THEN ReleaseTag_Public ELSE effectiveReleaseTag
         IN CASE level = Untrimmed -> Return(TRUE)
              [] level = Alpha -> Return(releaseTag >= ReleaseTag_Alpha)
              [] level = Beta -> Return(releaseTag = ReleaseTag_Beta)
              [] level = Public -> Return(releaseTag = ReleaseTag_Public)
              [] OTHER -> Throw("Unrecognized release level")

\* A filter that does not treat a missing tag as @public.
shouldIncludeInReport_NoDefault(isPrivate, effectiveReleaseTag, level) ==
    IF isPrivate THEN Return(FALSE)
    ELSE LET releaseTag == effectiveReleaseTag
         IN CASE level = Untrimmed -> Return(TRUE)
              [] level = Alpha -> Return(releaseTag >= ReleaseTag_Alpha)
              [] level = Beta -> Return(releaseTag >= ReleaseTag_Beta)
              [] level = Public -> Return(releaseTag = ReleaseTag_Public)
              [] OTHER -> Throw("Unrecognized release level")

\* A filter that looks at the release tag before the private modifier.
shouldIncludeInReport_PrivateLast(isPrivate, effectiveReleaseTag, level) ==
    LET releaseTag == IF effectiveReleaseTag = ReleaseTag_None
                      THEN ReleaseTag_Public ELSE effectiveReleaseTag
    IN CASE level = Untrimmed -> Return(TRUE)
         [] level = Alpha -> Return(releaseTag >= ReleaseTag_Alpha /\ ~isPrivate)
         [] level = Beta -> Return(releaseTag >= ReleaseTag_Beta /\ ~isPrivate)
         [] level = Public -> Return(releaseTag = ReleaseTag_Public /\ ~isPrivate)
         [] OTHER -> Throw("Unrecognized release level")

\* A filter whose switch falls back to "include" instead of throwing.
shouldIncludeInReport_SilentDefault(isPrivate, effectiveReleaseTag, level) ==
    IF isPrivate THEN Return(FALSE)
    ELSE LET releaseTag == IF effectiveReleaseTag = ReleaseTag_None
                           THEN ReleaseTag_Public ELSE effectiveReleaseTag
         IN CASE level = Alpha -> Return(releaseTag >= ReleaseTag_Alpha)
              [] level = Beta -> Return(releaseTag >= ReleaseTag_Beta)
              [] level = Public -> Return(releaseTag = ReleaseTag_Public)
              [] OTHER -> Return(TRUE)

shouldIncludeInReport(isPrivate, effectiveReleaseTag, level) ==
    \* Private declarations are not included in the API report
    IF isPrivate THEN Return(FALSE)
    ELSE \* No specified release tag is considered the same as `@public`.
         LET releaseTag == IF effectiveReleaseTag = ReleaseTag_None
                           THEN ReleaseTag_Public ELSE effectiveReleaseTag
         IN CASE level = Untrimmed -> Return(TRUE)
              [] level = Alpha -> Return(releaseTag >= ReleaseTag_Alpha)
              [] level = Beta -> Return(releaseTag >= ReleaseTag_Beta)
              [] level = Public -> Return(releaseTag = ReleaseTag_Public)
              [] OTHER -> Throw("Unrecognized release level")

(***************************************************************************)
(* Text                                                                    *)
(***************************************************************************)
Undefined == "<undefined>"

RECURSIVE Concat(_)
Concat(strings) ==
    IF strings = <<>> THEN "" ELSE Head(strings) \o Concat(Tail(strings))

RECURSIVE Flatten(_)
Flatten(seqs) ==
    IF seqs = <<>> THEN <<>> ELSE Head(seqs) \o Flatten(Tail(seqs))

\* Array.prototype.join
RECURSIVE Join(_, _)
Join(strings, glue) ==
    IF strings = <<>> THEN ""
    ELSE IF Len(strings) = 1 THEN strings[1]
    ELSE strings[1] \o glue \o Join(Tail(strings), glue)

(***************************************************************************)
(* Syntax trees.  A tree is a text buffer (a sequence of tokens) and a     *)
(* table of nodes; node 1 is the root.  A node covers the tokens           *)
(* start .. end - 1 of the buffer.                                         *)
(***************************************************************************)
Node(k, s, e, p, c, nm, rf) ==
    [kind |-> k, start |-> s, end |-> e, parent |-> p, children |-> c,
     localName |-> nm, refers |-> rf]

ClassShape ==
    [text |-> <<
        "/** A widget. */", "\n", "export", " ", "declare", " ", "class", " ",
        "Widget", " ", "{", "\n  ", "secret", ":", " ", "GadgetAlias", ";", "\n  ",
        "_size", ":", " ", "number", ";", "\n", "}"
     >>,
     nodes |-> <<
        Node("ClassDeclaration", 1, 26, 0, <<2, 3, 6, 7, 8, 9, 21>>, "Widget", ""),  \* 1
        Node("JSDocComment", 1, 2, 1, <<>>, "", ""),  \* 2
        Node("SyntaxList", 3, 6, 1, <<4, 5>>, "", ""),  \* 3
        Node("ExportKeyword", 3, 4, 3, <<>>, "", ""),  \* 4
        Node("DeclareKeyword", 5, 6, 3, <<>>, "", ""),  \* 5
        Node("ClassKeyword", 7, 8, 1, <<>>, "", ""),  \* 6
        Node("Identifier", 9, 10, 1, <<>>, "", "self"),  \* 7
        Node("FirstPunctuation", 11, 12, 1, <<>>, "", ""),  \* 8
        Node("SyntaxList", 13, 24, 1, <<10, 16>>, "", ""),  \* 9
        Node("PropertyDeclaration", 13, 18, 9, <<11, 12, 13, 15>>, "secret", ""),  \* 10
        Node("Identifier", 13, 14, 10, <<>>, "", ""),  \* 11
        Node("ColonToken", 14, 15, 10, <<>>, "", ""),  \* 12
        Node("TypeReference", 16, 17, 10, <<14>>, "", ""),  \* 13
        Node("Identifier", 16, 17, 13, <<>>, "", "other"),  \* 14
        Node("SemicolonToken", 17, 18, 10, <<>>, "", ""),  \* 15
        Node("PropertyDeclaration", 19, 24, 9, <<17, 18, 19, 20>>, "_size", ""),  \* 16
        Node("Identifier", 19, 20, 16, <<>>, "", ""),  \* 17
        Node("ColonToken", 20, 21, 16, <<>>, "", ""),  \* 18
        Node("NumberKeyword", 22, 23, 16, <<>>, "", ""),  \* 19
        Node("SemicolonToken", 23, 24, 16, <<>>, "", ""),  \* 20
        Node("CloseBraceToken", 25, 26, 1, <<>>, "", "")  \* 21
     >>,
     listPrefix |-> Undefined]

InterfaceShape ==
    [text |-> <<
        "interface", " ", "IShape", " ", "{", "\n  ", "inner", ":", " ", "{", " ",
        "x", ":", " ", "number", ";", " ", "}", ";", "\n  ", "area", ":", " ",
        "number", ";", "\n", "}"
     >>,
     nodes |-> <<
        Node("InterfaceDeclaration", 1, 28, 0, <<2, 3, 4, 5, 24>>, "IShape", ""),  \* 1
        Node("InterfaceKeyword", 1, 2, 1, <<>>, "", ""),  \* 2
        Node("Identifier", 3, 4, 1, <<>>, "", "self"),  \* 3
        Node("FirstPunctuation", 5, 6, 1, <<>>, "", ""),  \* 4
        Node("SyntaxList", 7, 26, 1, <<6, 19>>, "", ""),  \* 5
        Node("PropertySignature", 7, 20, 5, <<7, 8, 9, 18>>, "inner", ""),  \* 6
        Node("Identifier", 7, 8, 6, <<>>, "", ""),  \* 7
        Node("ColonToken", 8, 9, 6, <<>>, "", ""),  \* 8
        Node("TypeLiteral", 10, 19, 6, <<10, 11, 17>>, "", ""),  \* 9
        Node("FirstPunctuation", 10, 11, 9, <<>>, "", ""),  \* 10
        Node("SyntaxList", 12, 17, 9, <<12>>, "", ""),  \* 11
        Node("PropertySignature", 12, 17, 11, <<13, 14, 15, 16>>, "x", ""),  \* 12
        Node("Identifier", 12, 13, 12, <<>>, "", ""),  \* 13
        Node("ColonToken", 13, 14, 12, <<>>, "", ""),  \* 14
        Node("NumberKeyword", 15, 16, 12, <<>>, "", ""),  \* 15
        Node("SemicolonToken", 16, 17, 12, <<>>, "", ""),  \* 16
        Node("CloseBraceToken", 18, 19, 9, <<>>, "", ""),  \* 17
        Node("SemicolonToken", 19, 20, 6, <<>>, "", ""),  \* 18
        Node("PropertySignature", 21, 26, 5, <<20, 21, 22, 23>>, "area", ""),  \* 19
        Node("Identifier", 21, 22, 19, <<>>, "", ""),  \* 20
        Node("ColonToken", 22, 23, 19, <<>>, "", ""),  \* 21
        Node("NumberKeyword", 24, 25, 19, <<>>, "", ""),  \* 22
        Node("SemicolonToken", 25, 26, 19, <<>>, "", ""),  \* 23
        Node("CloseBraceToken", 27, 28, 1, <<>>, "", "")  \* 24
     >>,
     listPrefix |-> Undefined]

NamespaceShape ==
    [text |-> <<
        "export", " ", "declare", " ", "namespace", " ", "Tools", " ", "{", "\n  ",
        "function", " ", "zeta", "(", ")", ":", " ", "void", ";", "\n  ", "function",
        " ", "_alpha", "(", ")", ":", " ", "void", ";", "\n", "}"
     >>,
     nodes |-> <<
        Node("ModuleDeclaration", 1, 32, 0, <<2, 5, 6, 7>>, "Tools", ""),  \* 1
        Node("SyntaxList", 1, 4, 1, <<3, 4>>, "", ""),  \* 2
        Node("ExportKeyword", 1, 2, 2, <<>>, "", ""),  \* 3
        Node("DeclareKeyword", 3, 4, 2, <<>>, "", ""),  \* 4
        Node("NamespaceKeyword", 5, 6, 1, <<>>, "", ""),  \* 5
        Node("Identifier", 7, 8, 1, <<>>, "", "self"),  \* 6
        Node("ModuleBlock", 9, 32, 1, <<8, 9, 26>>, "", ""),  \* 7
        Node("FirstPunctuation", 9, 10, 7, <<>>, "", ""),  \* 8
        Node("SyntaxList", 11, 30, 7, <<10, 18>>, "", ""),  \* 9
        Node("FunctionDeclaration", 11, 20, 9, <<11, 12, 13, 14, 15, 16, 17>>, "zeta", ""),  \* 10
        Node("FunctionKeyword", 11, 12, 10, <<>>, "", ""),  \* 11
        Node("Identifier", 13, 14, 10, <<>>, "", ""),  \* 12
        Node("OpenParenToken", 14, 15, 10, <<>>, "", ""),  \* 13
        Node("CloseParenToken", 15, 16, 10, <<>>, "", ""),  \* 14
        Node("ColonToken", 16, 17, 10, <<>>, "", ""),  \* 15
        Node("VoidKeyword", 18, 19, 10, <<>>, "", ""),  \* 16
        Node("SemicolonToken", 19, 20, 10, <<>>, "", ""),  \* 17
        Node("FunctionDeclaration", 21, 30, 9, <<19, 20, 21, 22, 23, 24, 25>>, "_alpha", ""),  \* 18
        Node("FunctionKeyword", 21, 22, 18, <<>>, "", ""),  \* 19
        Node("Identifier", 23, 24, 18, <<>>, "", ""),  \* 20
        Node("OpenParenToken", 24, 25, 18, <<>>, "", ""),  \* 21
        Node("CloseParenToken", 25, 26, 18, <<>>, "", ""),  \* 22
        Node("ColonToken", 26, 27, 18, <<>>, "", ""),  \* 23
        Node("VoidKeyword", 28, 29, 18, <<>>, "", ""),  \* 24
        Node("SemicolonToken", 29, 30, 18, <<>>, "", ""),  \* 25
        Node("CloseBraceToken", 31, 32, 7, <<>>, "", "")  \* 26
     >>,
     listPrefix |-> Undefined]

VariableShape ==
    [text |-> <<"count", ":", " ", "number">>,
     nodes |-> <<
        Node("VariableDeclaration", 1, 5, 0, <<2, 3, 4>>, "count", ""),  \* 1
        Node("Identifier", 1, 2, 1, <<>>, "", "self"),  \* 2
        Node("ColonToken", 2, 3, 1, <<>>, "", ""),  \* 3
        Node("NumberKeyword", 4, 5, 1, <<>>, "", "")  \* 4
     >>,
     listPrefix |-> "const "]

Shapes == {ClassShape, InterfaceShape, NamespaceShape, VariableShape}

\* AstDeclaration.isSupportedSyntaxKind
isSupportedSyntaxKind(kind) ==
    kind \in {"ClassDeclaration", "InterfaceDeclaration", "ModuleDeclaration",
              "FunctionDeclaration", "PropertyDeclaration", "PropertySignature",
              "MethodDeclaration", "MethodSignature", "EnumDeclaration", "EnumMember",
              "TypeAliasDeclaration", "VariableDeclaration", "Constructor"}

NodesOf(t) == DOMAIN t.nodes
DeclNodes(t) == {n \in NodesOf(t) : isSupportedSyntaxKind(t.nodes[n].kind)}

RECURSIVE IsWithin(_, _, _)
\* n is a or a descendant of a
IsWithin(t, n, a) ==
    IF n = a THEN TRUE
    ELSE IF t.nodes[n].parent = 0 THEN FALSE
    ELSE IsWithin(t, t.nodes[n].parent, a)

\* The nearest enclosing declaration of a node (the node itself if it is one).
RECURSIVE DeclOf(_, _)
DeclOf(t, n) ==
    IF isSupportedSyntaxKind(t.nodes[n].kind) \/ t.nodes[n].parent = 0 THEN n
    ELSE DeclOf(t, t.nodes[n].parent)

(***************************************************************************)
(* Span and SpanModification                                               *)
(***************************************************************************)
TextRange(t, from, to) == Concat(SubSeq(t.text, from, to - 1))

IndexOf(seq, x) == CHOOSE i \in DOMAIN seq : seq[i] = x

\* Span.previousSibling / Span.nextSibling (0: undefined)
previousSibling(t, n) ==
    IF t.nodes[n].parent = 0 THEN 0
    ELSE LET sibs == t.nodes[t.nodes[n].parent].children
             i == IndexOf(sibs, n)
         IN IF i = 1 THEN 0 ELSE sibs[i - 1]

nextSibling(t, n) ==
    IF t.nodes[n].parent = 0 THEN 0
    ELSE LET sibs == t.nodes[t.nodes[n].parent].children
             i == IndexOf(sibs, n)
         IN IF i = Len(sibs) THEN 0 ELSE sibs[i + 1]

\* Span.prefix: the span's own text before its first child
SpanPrefix(t, n) ==
    LET nd == t.nodes[n]
    IN TextRange(t, nd.start,
                 IF nd.children = <<>> THEN nd.end ELSE t.nodes[nd.children[1]].start)

\* Span.suffix: the span's own text after its last child
SpanSuffix(t, n) ==
    LET nd == t.nodes[n]
    IN IF nd.children = <<>> THEN ""
       ELSE TextRange(t, t.nodes[nd.children[Len(nd.children)]].end, nd.end)

\* A separator that loses the text between two siblings.
SpanSeparator_Lost(t, n) == ""

\* Span.separator: the text between the span and its next sibling
SpanSeparator(t, n) ==
    IF nextSibling(t, n) = 0 THEN ""
    ELSE TextRange(t, t.nodes[n].end, t.nodes[nextSibling(t, n)].start)

\* new Span(node): every span starts with a modification that passes its text through
NewModification(t) ==
    [n \in NodesOf(t) |->
        [prefix |-> SpanPrefix(t, n), suffix |-> SpanSuffix(t, n),
         omitChildren |-> FALSE, omitSeparatorAfter |-> FALSE,
         sortChildren |-> FALSE, sortKey |-> Undefined]]

\* SpanModification.skipAll
skipAll(m) ==
    [m EXCEPT !.prefix = "", !.suffix = "", !.omitChildren = TRUE,
              !.omitSeparatorAfter = TRUE]

\* Collector.getSortKeyIgnoringUnderscore, on the names of the trees above
getSortKeyIgnoringUnderscore(identifier) ==
    CASE identifier = "_size" -> "size*size*_size"
      [] identifier = "_alpha" -> "alpha*alpha*_alpha"
      [] OTHER -> identifier \o "*" \o identifier

\* The position of a sort key in the collation of the keys above.
SortRank(key) ==
    CASE key = "alpha*alpha*_alpha" -> 1
      [] key = "area*area" -> 2
      [] key = "inner*inner" -> 3
      [] key = "secret*secret" -> 4
      [] key = "size*size*_size" -> 5
      [] key = "x*x" -> 6
      [] key = "zeta*zeta" -> 7
      [] OTHER -> 8

\* Stable insertion of a span into a sequence sorted by sort key.
RECURSIVE InsertSorted(_, _, _)
InsertSorted(mods, sorted, n) ==
    IF sorted = <<>> THEN <<n>>
    ELSE IF SortRank(mods[n].sortKey) < SortRank(mods[Head(sorted)].sortKey)
         THEN <<n>> \o sorted
         ELSE <<Head(sorted)>> \o InsertSorted(mods, Tail(sorted), n)

RECURSIVE SortByKey(_, _)
SortByKey(mods, spans) ==
    IF spans = <<>> THEN <<>>
    ELSE InsertSorted(mods, SortByKey(mods, SubSeq(spans, 1, Len(spans) - 1)),
                      spans[Len(spans)])

\* The order in which the children are written: those with a sort key are
\* reordered among themselves, the others keep their place.
RECURSIVE Interleave(_, _, _)
Interleave(mods, kids, sorted) ==
    IF kids = <<>> THEN <<>>
    ELSE IF mods[Head(kids)].sortKey = Undefined
         THEN <<Head(kids)>> \o Interleave(mods, Tail(kids), sorted)
         ELSE <<Head(sorted)>> \o Interleave(mods, Tail(kids), Tail(sorted))

ChildOrder(t, mods, n) ==
    LET kids == t.nodes[n].children
        keyed == SelectSeq(kids, LAMBDA k : mods[k].sortKey # Undefined)
    IN IF mods[n].sortChildren /\ Len(kids) > 1 /\ Len(keyed) > 1
       THEN Interleave(mods, kids, SortByKey(mods, keyed))
       ELSE kids

\* One write of the span writer: which span wrote it, which part, and the text.
Piece(n, part, s) ==
    IF s = "" THEN <<>> ELSE <<[span |-> n, part |-> part, text |-> s]>>

\* Span.writeModifiedText
RECURSIVE writeModifiedText(_, _, _)
writeModifiedText(t, mods, n) ==
    LET m == mods[n]
        order == ChildOrder(t, mods, n)
    IN Piece(n, "prefix", m.prefix)
       \o (IF m.omitChildren THEN <<>>
           ELSE Flatten([i \in 1..Len(order) |-> writeModifiedText(t, mods, order[i])]))
       \o Piece(n, "suffix", m.suffix)
       \o (IF m.omitSeparatorAfter THEN <<>>
           ELSE Piece(n, "separator", SpanSeparator(t, n)))

PiecesText(pieces) == Concat([i \in 1..Len(pieces) |-> pieces[i].text])

(***************************************************************************)
(* Metadata and messages handed in by the Collector                        *)
(***************************************************************************)
\* ApiItemMetadata of a declaration, with its modifier flags and
\* Collector.isAncillaryDeclaration
DefaultMeta ==
    [isPrivate |-> FALSE, effectiveReleaseTag |-> ReleaseTag_Public,
     releaseTagSameAsParent |-> FALSE, isSealed |-> FALSE, isVirtual |-> FALSE,
     isOverride |-> FALSE, isEventProperty |-> FALSE, isDeprecated |-> FALSE,
     undocumented |-> FALSE, isPreapproved |-> FALSE, isAncillary |-> FALSE]

\* ReleaseTag.getTagName
getTagName(tag) ==
    CASE tag = ReleaseTag_Internal -> "@internal"
      [] tag = ReleaseTag_Alpha -> "@alpha"
      [] tag = ReleaseTag_Beta -> "@beta"
      [] tag = ReleaseTag_Public -> "@public"
      [] OTHER -> Undefined

TagNames == {"@internal", "@alpha", "@beta", "@public"}

\* An ExtractorMessage: the lines of its text, and properties.exportName
\* ("" when it has none).
Message(lines, exportName) == [lines |-> lines, exportName |-> exportName]

(***************************************************************************)
(* ApiReportGenerator._writeLineAsComments and _getAedocSynopsis           *)
(***************************************************************************)
\* The lines written for one call of _writeLineAsComments
writeLineAsComments(lines) == [i \in 1..Len(lines) |-> "// " \o lines[i] \o "\n"]

\* 'Warning: ' + message.formatMessageWithoutLocation(), split at its line breaks
WarningLines(message) ==
    <<"Warning: " \o message.lines[1]>> \o Tail(message.lines)

\* A synopsis that prints the release tag whenever the declaration has one.
footerTag_Always(meta) ==
    IF meta.effectiveReleaseTag # ReleaseTag_None
    THEN <<getTagName(meta.effectiveReleaseTag)>> ELSE <<>>

\* The release tag part of the synopsis footer
footerTag(meta) ==
    IF ~meta.releaseTagSameAsParent
    THEN IF meta.effectiveReleaseTag # ReleaseTag_None
         THEN <<getTagName(meta.effectiveReleaseTag)>> ELSE <<>>
    ELSE <<>>

\* Footer parts that begin with the undocumented marker.
footerParts_UndocumentedFirst(meta) ==
    (IF meta.undocumented THEN <<"(undocumented)">> ELSE <<>>)
    \o footerTag(meta)
    \o (IF meta.isSealed THEN <<"@sealed">> ELSE <<>>)
    \o (IF meta.isVirtual THEN <<"@virtual">> ELSE <<>>)
    \o (IF meta.isOverride THEN <<"@override">> ELSE <<>>)
    \o (IF meta.isEventProperty THEN <<"@eventProperty">> ELSE <<>>)
    \o (IF meta.isDeprecated THEN <<"@deprecated">> ELSE <<>>)

footerParts(meta) ==
    footerTag(meta)
    \o (IF meta.isSealed THEN <<"@sealed">> ELSE <<>>)
    \o (IF meta.isVirtual THEN <<"@virtual">> ELSE <<>>)
    \o (IF meta.isOverride THEN <<"@override">> ELSE <<>>)
    \o (IF meta.isEventProperty THEN <<"@eventProperty">> ELSE <<>>)
    \o (IF meta.isDeprecated THEN <<"@deprecated">> ELSE <<>>)
    \o (IF meta.undocumented THEN <<"(undocumented)">> ELSE <<>>)

\* A synopsis builder that raises the issue for every non-ancillary declaration.
getAedocSynopsis_RaisesAlways(meta, messagesToReport) ==
    LET warnings == Flatten([i \in 1..Len(messagesToReport) |->
                                writeLineAsComments(WarningLines(messagesToReport[i]))])
        parts == IF meta.isAncillary THEN <<>> ELSE footerParts(meta)
        footer == IF parts # <<>>
                  THEN (IF Len(messagesToReport) > 0 THEN writeLineAsComments(<<"">>) ELSE <<>>)
                       \o writeLineAsComments(<<Join(parts, " ")>>)
                  ELSE <<>>
    IN [lines |-> warnings \o footer,
        warnings |-> warnings,
        parts |-> parts,
        raised |-> ~meta.isAncillary]

\* _getAedocSynopsis: the comment lines written, the footer parts among them, and
\* whether messageRouter.addAnalyzerIssue(ae-undocumented) was called.
getAedocSynopsis(meta, messagesToReport) ==
    LET warnings == Flatten([i \in 1..Len(messagesToReport) |->
                                writeLineAsComments(WarningLines(messagesToReport[i]))])
        parts == IF meta.isAncillary THEN <<>> ELSE footerParts(meta)
        footer == IF parts # <<>>
                  THEN (IF Len(messagesToReport) > 0 THEN writeLineAsComments(<<"">>) ELSE <<>>)
                       \o writeLineAsComments(<<Join(parts, " ")>>)
                  ELSE <<>>
    IN [lines |-> warnings \o footer,
        warnings |-> warnings,
        parts |-> parts,
        raised |-> ~meta.isAncillary /\ meta.undocumented]

SynopsisText(synopsis) == Concat(synopsis.lines)

(***************************************************************************)
(* ApiReportGenerator._modifySpan                                          *)
(*                                                                         *)
(* ctx holds what the call reads: the tree, the metadata and messages of   *)
(* its declarations, the entity's shouldInlineExport, the nameForEmit of   *)
(* the entities its identifiers refer to, and the release level.  st holds *)
(* what the call changes: the modifications, the analyzer issues raised,   *)
(* the error thrown ("" for none), and a log of the filter's verdicts and  *)
(* of the synopses computed.                                               *)
(***************************************************************************)
NewState(t) ==
    [mods |-> NewModification(t), issues |-> <<>>, error |-> "", log |-> <<>>]

FilterOf(ctx, decl) ==
    shouldIncludeInReport(ctx.meta[decl].isPrivate, ctx.meta[decl].effectiveReleaseTag,
                          ctx.releaseLevel)

Logged(st, op, decl, span, verdict) ==
    [st EXCEPT !.log = Append(@, [op |-> op, decl |-> decl, span |-> span, verdict |-> verdict])]

\* An identifier case that keeps the source text after the emitted name.
modifyIdentifier_KeepsAlias(ctx, st, span) ==
    LET ref == ctx.tree.nodes[span].refers
    IN IF ref = "" THEN st
       ELSE IF ctx.names[ref] = Undefined
            THEN [st EXCEPT !.error = "InternalError: referencedEntry.nameForEmit is undefined"]
            ELSE [st EXCEPT !.mods[span].prefix = ctx.names[ref] \o @]

\* case ts.SyntaxKind.Identifier
modifyIdentifier(ctx, st, span) ==
    LET ref == ctx.tree.nodes[span].refers   \* collector.tryGetEntityForNode
    IN IF ref = "" THEN st
       ELSE IF ctx.names[ref] = Undefined
            THEN [st EXCEPT !.error = "InternalError: referencedEntry.nameForEmit is undefined"]
            ELSE [st EXCEPT !.mods[span].prefix = ctx.names[ref]]

\* A keyword case that always puts the export modifier in front of the keyword.
modifyKeyword_OwnPrefix(ctx, st, span) ==
    [st EXCEPT !.mods[span].prefix = (IF ctx.shouldInlineExport THEN "export " ELSE "") \o @]

\* case ts.SyntaxKind.InterfaceKeyword ... FunctionKeyword
modifyKeyword(ctx, st, span) ==
    LET replacedModifiers == IF ctx.shouldInlineExport THEN "export " ELSE ""
        previousSpan == previousSibling(ctx.tree, span)
    IN IF previousSpan # 0 /\ ctx.tree.nodes[previousSpan].kind = "SyntaxList"
       THEN [st EXCEPT !.mods[previousSpan].prefix = replacedModifiers \o @]
       ELSE [st EXCEPT !.mods[span].prefix = replacedModifiers \o @]

\* case ts.SyntaxKind.VariableDeclaration
modifyVariableDeclaration(ctx, st, span) ==
    IF ctx.tree.nodes[span].parent # 0 THEN st
    ELSE IF ctx.tree.listPrefix = Undefined
         THEN [st EXCEPT !.error = "InternalError: Unsupported variable declaration"]
         ELSE [st EXCEPT !.mods[span].prefix =
                              (IF ctx.shouldInlineExport THEN "export " ELSE "")
                              \o ctx.tree.listPrefix \o @,
                         !.mods[span].suffix = ";"]

KeywordKinds ==
    {"InterfaceKeyword", "ClassKeyword", "EnumKeyword", "NamespaceKeyword",
     "ModuleKeyword", "TypeKeyword", "FunctionKeyword"}

\* The switch on span.kind
modifyByKind(ctx, st, span) ==
    LET kind == ctx.tree.nodes[span].kind
    IN CASE kind = "JSDocComment" -> [st EXCEPT !.mods[span] = skipAll(@)]
         [] kind \in {"ExportKeyword", "DefaultKeyword", "DeclareKeyword"} ->
                [st EXCEPT !.mods[span] = skipAll(@)]
         [] kind \in KeywordKinds -> modifyKeyword(ctx, st, span)
         [] kind = "VariableDeclaration" -> modifyVariableDeclaration(ctx, st, span)
         [] kind = "Identifier" -> modifyIdentifier(ctx, st, span)
         [] OTHER -> st

\* A SyntaxList case without the branch for namespaces.
sortChildrenOf_DeclarationsOnly(ctx, span) ==
    LET nd == ctx.tree.nodes[span]
    IN /\ nd.kind = "SyntaxList"
       /\ nd.parent # 0
       /\ isSupportedSyntaxKind(ctx.tree.nodes[nd.parent].kind)

\* let sortChildren, as the SyntaxList case sets it
sortChildrenOf(ctx, span) ==
    LET nd == ctx.tree.nodes[span]
    IN /\ nd.kind = "SyntaxList"
       /\ nd.parent # 0
       /\ \/ isSupportedSyntaxKind(ctx.tree.nodes[nd.parent].kind)
          \/ ctx.tree.nodes[nd.parent].kind = "ModuleBlock"

\* A child loop that injects the synopsis inside type literals too.
synopsisWanted_Everywhere(insideTypeLiteral) == TRUE

\* if (!insideTypeLiteral)
synopsisWanted(insideTypeLiteral) == ~insideTypeLiteral

\* The body of the child loop for a child of a supported kind, before the recursion
visitChildDeclaration(ctx, st, span, child, insideTypeLiteral, sortChildren) ==
    LET verdict == FilterOf(ctx, child)
        st0 == Logged(st, "filter", child, child, verdict)
    IN IF verdict.threw THEN [st0 EXCEPT !.error = verdict.error]
       ELSE IF ~verdict.value THEN st0
       ELSE LET st1 == IF sortChildren
                       THEN [st0 EXCEPT !.mods[span].sortChildren = TRUE,
                                        !.mods[child].sortKey =
                                            getSortKeyIgnoringUnderscore(
                                                ctx.tree.nodes[child].localName)]
                       ELSE st0
            IN IF synopsisWanted(insideTypeLiteral)
               THEN LET synopsis == getAedocSynopsis(ctx.meta[child], ctx.messages[child])
                        st2 == Logged(st1, "synopsis", child, child, Return(synopsis.raised))
                    IN [st2 EXCEPT !.mods[child].prefix = SynopsisText(synopsis) \o @,
                                   !.issues = IF synopsis.raised THEN Append(@, child) ELSE @]
               ELSE st1

RECURSIVE modifySpan(_, _, _, _, _), modifyChildren(_, _, _, _, _, _, _)

\* A _modifySpan that skips a rejected span and goes on with its children.
modifySpan_DescendsAnyway(ctx, st, span, astDeclaration, insideTypeLiteral) ==
    IF st.error # "" THEN st
    ELSE
    LET verdict == FilterOf(ctx, astDeclaration)
        st0 == Logged(st, "filter", astDeclaration, span, verdict)
    IN IF verdict.threw THEN [st0 EXCEPT !.error = verdict.error]
       ELSE LET kind == ctx.tree.nodes[span].kind
                st1 == IF ~verdict.value THEN [st0 EXCEPT !.mods[span] = skipAll(@)]
                       ELSE modifyByKind(ctx, st0, span)
                recurseChildren == kind # "JSDocComment"
            IN IF st1.error # "" \/ ~recurseChildren THEN st1
               ELSE modifyChildren(ctx, st1, span, 1, astDeclaration,
                                   insideTypeLiteral \/ kind = "TypeLiteral",
                                   sortChildrenOf(ctx, span))

modifySpan(ctx, st, span, astDeclaration, insideTypeLiteral) ==
    IF st.error # "" THEN st
    ELSE
    LET verdict == FilterOf(ctx, astDeclaration)
        st0 == Logged(st, "filter", astDeclaration, span, verdict)
    IN IF verdict.threw THEN [st0 EXCEPT !.error = verdict.error]
       ELSE IF ~verdict.value THEN [st0 EXCEPT !.mods[span] = skipAll(@)]
       ELSE LET kind == ctx.tree.nodes[span].kind
                st1 == modifyByKind(ctx, st0, span)
                recurseChildren == kind # "JSDocComment"
            IN IF st1.error # "" \/ ~recurseChildren THEN st1
               ELSE modifyChildren(ctx, st1, span, 1, astDeclaration,
                                   insideTypeLiteral \/ kind = "TypeLiteral",
                                   sortChildrenOf(ctx, span))

modifyChildren(ctx, st, span, i, astDeclaration, insideTypeLiteral, sortChildren) ==
    IF st.error # "" \/ i > Len(ctx.tree.nodes[span].children) THEN st
    ELSE LET child == ctx.tree.nodes[span].children[i]
             isDeclaration == isSupportedSyntaxKind(ctx.tree.nodes[child].kind)
             \* astSymbolTable.getChildAstDeclarationByNode
             childAstDeclaration == IF isDeclaration THEN child ELSE astDeclaration
             st1 == IF isDeclaration
                    THEN visitChildDeclaration(ctx, st, span, child, insideTypeLiteral,
                                               sortChildren)
                    ELSE st
             st2 == modifySpan(ctx, st1, child, childAstDeclaration, insideTypeLiteral)
         IN modifyChildren(ctx, st2, span, i + 1, astDeclaration, insideTypeLiteral,
                           sortChildren)

(***************************************************************************)
(* ApiReportGenerator._modifySpanForPreapproved                            *)
(***************************************************************************)
\* A pre-approved policy that never starts to skip the rest.
RECURSIVE modifyPreapprovedChildren_KeepsRest(_, _, _, _, _)
modifyPreapprovedChildren_KeepsRest(t, mods, span, i, skipRest) ==
    IF i > Len(t.nodes[span].children) THEN mods
    ELSE LET child == t.nodes[span].children[i]
             kind == t.nodes[child].kind
             m1 == IF kind = "SyntaxList" \/ kind = "JSDocComment"
                   THEN [mods EXCEPT ![child] = skipAll(@)]
                   ELSE mods
             m2 == IF kind = "Identifier"
                   THEN [m1 EXCEPT ![child].omitSeparatorAfter = TRUE,
                                   ![child].suffix = " { /* (preapproved) */ }"]
                   ELSE m1
         IN modifyPreapprovedChildren_KeepsRest(t, m2, span, i + 1, FALSE)

RECURSIVE modifyPreapprovedChildren(_, _, _, _, _)
modifyPreapprovedChildren(t, mods, span, i, skipRest) ==
    IF i > Len(t.nodes[span].children) THEN mods
    ELSE LET child == t.nodes[span].children[i]
             kind == t.nodes[child].kind
             m1 == IF skipRest \/ kind = "SyntaxList" \/ kind = "JSDocComment"
                   THEN [mods EXCEPT ![child] = skipAll(@)]
                   ELSE mods
             m2 == IF kind = "Identifier"
                   THEN [m1 EXCEPT ![child].omitSeparatorAfter = TRUE,
                                   ![child].suffix = " { /* (preapproved) */ }"]
                   ELSE m1
         IN modifyPreapprovedChildren(t, m2, span, i + 1, skipRest \/ kind = "Identifier")

modifySpanForPreapproved(t, mods, span) == modifyPreapprovedChildren(t, mods, span, 1, FALSE)

(***************************************************************************)
(* ApiReportGenerator.areEquivalentApiFileContents                         *)
(*                                                                         *)
(* A file content is a sequence of characters: two letters, and three of   *)
(* the characters that \s matches (space, line feed, carriage return).     *)
(***************************************************************************)
Letters == {"a", "b"}
Whitespace == {" ", "\n", "\r"}
Characters == Letters \cup Whitespace

\* The longest file content drawn
MaxLen == 3
FileContents == UNION {[1..n -> Characters] : n \in 0..MaxLen}

\* What is left of a content after the whitespace it starts with
RECURSIVE SkipWhitespace(_)
SkipWhitespace(content) ==
    IF content # <<>> /\ Head(content) \in Whitespace
    THEN SkipWhitespace(Tail(content))
    ELSE content

\* A replace that turns every whitespace character, not every run, into a space.
RECURSIVE replaceWhitespaceRuns_EachCharacter(_)
replaceWhitespaceRuns_EachCharacter(content) ==
    IF content = <<>> THEN <<>>
    ELSE <<IF Head(content) \in Whitespace THEN " " ELSE Head(content)>>
             \o replaceWhitespaceRuns_EachCharacter(Tail(content))

\* content.replace(/[\s]+/g, ' ')
RECURSIVE replaceWhitespaceRuns(_)
replaceWhitespaceRuns(content) ==
    IF content = <<>> THEN <<>>
    ELSE IF Head(content) \in Whitespace
         THEN <<" ">> \o replaceWhitespaceRuns(SkipWhitespace(Tail(content)))
         ELSE <<Head(content)>> \o replaceWhitespaceRuns(Tail(content))

areEquivalentApiFileContents(actual, expected) ==
    LET normalizedActual == replaceWhitespaceRuns(actual)
        normalizedExpected == replaceWhitespaceRuns(expected)
    IN normalizedActual = normalizedExpected

IdleEquiv ==
    /\ actualFileContent = <<>>
    /\ expectedFileContent = <<>>
    /\ equivResult = <<>>

(***************************************************************************)
(* ApiReportGenerator.generateReviewFileContent                            *)
(*                                                                         *)
(* The writer is kept as the sequence of the calls made on it: the         *)
(* operation, the block of the report the call belongs to, the index of    *)
(* the entity it is made for (0 for none), and the text handed over.       *)
(***************************************************************************)
Call(op, block, e, text) == [op |-> op, block |-> block, entity |-> e, text |-> text]

\* What a step of the generator yields: the writer calls made, and the message of
\* the error thrown ("" for none).
Emitted(calls) == [calls |-> calls, error |-> ""]
Thrown(calls, msg) == [calls |-> calls, error |-> msg]

\* Two steps in a row: the second is not taken when the first throws.
andThen(first, rest) ==
    IF first.error # "" THEN first
    ELSE [calls |-> first.calls \o rest.calls, error |-> rest.error]

\* Array.from(set).sort() on the directive names
DirectiveOrder == <<"dom", "es2015", "jest", "node">>
sortDirectives(names) == SelectSeq(DirectiveOrder, LAMBDA n : n \in names)

\* SourceFileLocationFormatter.formatDeclaration
formatDeclaration(declaration) ==
    declaration.fileName \o ":" \o declaration.line \o ":" \o declaration.column

\* DtsEmitHelpers.emitImport
emitImport(ent, e) ==
    <<Call("writeLine", "import", e,
           "import { " \o ent.nameForEmit \o " } from '" \o ent.modulePath \o "';")>>

\* DtsEmitHelpers.emitNamedExport
emitNamedExport(exportName, ent, e) ==
    <<Call("writeLine", "export", e,
           IF exportName = "default"
           THEN "export default " \o ent.nameForEmit \o ";"
           ELSE IF ent.nameForEmit # exportName
           THEN "export { " \o ent.nameForEmit \o " as " \o exportName \o " }"
           ELSE "export { " \o exportName \o " }")>>

\* DtsEmitHelpers.emitStarExports
emitStarExports(paths) ==
    [i \in 1..Len(paths) |->
        Call("writeLine", "starExport", 0, "export * from \"" \o paths[i] \o "\";")]

\* _writeLineAsComments on the writer of the report
commentCalls(block, e, lines) ==
    LET written_ == writeLineAsComments(lines)
    IN [i \in 1..Len(written_) |-> Call("writeLine", block, e, written_[i])]

\* The delimiter of the Markdown code fence, three backquotes in the program; a
\* string here cannot hold a backquote, so three apostrophes stand for them.
Fence == "'''"

\* The header, the opening fence, the directives and the imports
beginReport(config, ents) ==
    LET types == sortDirectives(config.package.dtsTypeReferenceDirectives)
        libs == sortDirectives(config.package.dtsLibReferenceDirectives)
    IN <<Call("writeLine", "header", 0,
              "## API Report File for \"" \o config.package.name \o "\"\n\n"
              \o "> Do not edit this file. It is a report generated by "
              \o "[API Extractor](https://api-extractor.com/).\n"),
         Call("writeLine", "fence", 0, Fence \o "ts\n")>>
       \o [i \in 1..Len(types) |->
              Call("writeLine", "typeDirective", 0,
                   "/// <reference types=\"" \o types[i] \o "\" />")]
       \o [i \in 1..Len(libs) |->
              Call("writeLine", "libDirective", 0,
                   "/// <reference lib=\"" \o libs[i] \o "\" />")]
       \o <<Call("ensureSkippedLine", "directives", 0, "")>>
       \o Flatten([i \in 1..Len(ents) |->
                      IF ents[i].astEntity = "AstImport" THEN emitImport(ents[i], i) ELSE <<>>])
       \o <<Call("ensureSkippedLine", "imports", 0, "")>>

\* if (entity.consumable || collector.extractorConfig.apiReportIncludeForgottenExports)
isEmitted(config, ent) == ent.consumable \/ config.apiReportIncludeForgottenExports

\* Export names that get a statement whether or not the export is inlined.
exportNamesToEmit_Always(ent) == ent.exportNames

\* The names that get an export statement of their own
exportNamesToEmit(ent) == IF ent.shouldInlineExport THEN <<>> ELSE ent.exportNames

isExportToEmit(ent, name) == \E k \in DOMAIN exportNamesToEmit(ent) : exportNamesToEmit(ent)[k] = name

\* A routing that leaves every fetched message with the declaration.
messagesToReportOf_KeepsAll(ent, fetchedMessages) == fetchedMessages

\* The messages of a declaration that stay with the declaration
messagesToReportOf(ent, fetchedMessages) ==
    SelectSeq(fetchedMessages,
              LAMBDA m : ~(m.exportName # "" /\ isExportToEmit(ent, m.exportName)))

\* exportToEmit.associatedMessages
associatedMessagesOf(ent, exportName) ==
    Flatten([d \in 1..Len(ent.astDeclarations) |->
                SelectSeq(ent.astDeclarations[d].messages,
                          LAMBDA m : m.exportName = exportName)])

\* What _modifySpan reads for a declaration of an entity
declarationCtx(config, ent, decl) ==
    [tree |-> decl.tree, meta |-> decl.meta, messages |-> [n \in DOMAIN decl.meta |-> <<>>],
     names |-> [self |-> ent.nameForEmit, other |-> "Gadget"],
     shouldInlineExport |-> ent.shouldInlineExport,
     releaseLevel |-> config.releaseLevel]

\* The Span of a declaration after _modifySpanForPreapproved or _modifySpan
modifiedSpan(config, ent, decl) ==
    IF decl.meta[1].isPreapproved
    THEN [NewState(decl.tree) EXCEPT !.mods = modifySpanForPreapproved(decl.tree, @, 1)]
    ELSE modifySpan(declarationCtx(config, ent, decl), NewState(decl.tree), 1, 1, FALSE)

\* span.writeModifiedText(writer); writer.ensureNewLine(), unless _modifySpan threw
writeDeclaration(e, decl, before, st) ==
    IF st.error # "" THEN Thrown(before, st.error)
    ELSE Emitted(before
             \o <<Call("writeModifiedText", "declaration", e,
                       PiecesText(writeModifiedText(decl.tree, st.mods, 1))),
                  Call("ensureNewLine", "declaration", e, "")>>)

\* The body of the loop over astEntity.astDeclarations
emitDeclaration(config, ent, e, decl) ==
    writeDeclaration(e, decl,
        <<Call("ensureSkippedLine", "declaration", e, ""),
          Call("write", "synopsis", e,
               SynopsisText(getAedocSynopsis(decl.meta[1],
                                             messagesToReportOf(ent, decl.messages))))>>,
        modifiedSpan(config, ent, decl))

RECURSIVE emitDeclarations(_, _, _, _)
emitDeclarations(config, ent, e, d) ==
    IF d > Len(ent.astDeclarations) THEN Emitted(<<>>)
    ELSE andThen(emitDeclaration(config, ent, e, ent.astDeclarations[d]),
                 emitDeclarations(config, ent, e, d + 1))

starExportMessage(ent) ==
    "The " \o ent.nameForEmit
    \o " namespace import includes a star export, which is not supported:\n"
    \o formatDeclaration(ent.declaration)

\* The export clauses of the synthetic namespace, up to the first exported entity
\* the collector has no entity for
RECURSIVE exportClauses(_, _)
exportClauses(ent, k) ==
    IF k > Len(ent.exportedLocalEntities) THEN [clauses |-> <<>>, error |-> ""]
    ELSE LET x == ent.exportedLocalEntities[k]
         IN IF ~x.hasCollectorEntity
            THEN [clauses |-> <<>>,
                  error |-> "InternalError: Cannot find collector entity for "
                            \o ent.nameForEmit \o "." \o x.localName]
            ELSE LET rest == exportClauses(ent, k + 1)
                     clause == IF x.nameForEmit = x.exportedName THEN x.nameForEmit
                               ELSE x.nameForEmit \o " as " \o x.exportedName
                 IN [clauses |-> <<clause>> \o rest.clauses, error |-> rest.error]

\* A namespace branch that looks at the star exports only after it opened the block.
emitNamespaceImport_OpensFirst(ent, e) ==
    LET opening == <<Call("ensureSkippedLine", "namespace", e, ""),
                     Call("writeLine", "namespace", e,
                          "declare namespace " \o ent.nameForEmit \o " {")>>
    IN IF ent.nameForEmit = Undefined
       THEN Thrown(<<>>, "InternalError: referencedEntry.nameForEmit is undefined")
       ELSE IF ent.starExportedExternalModules # {}
       THEN Thrown(opening, starExportMessage(ent))
       ELSE Emitted(opening)

\* if (astEntity instanceof AstNamespaceImport) { ... }
emitNamespaceImport(ent, e) ==
    IF ent.nameForEmit = Undefined
    THEN Thrown(<<>>, "InternalError: referencedEntry.nameForEmit is undefined")
    ELSE IF Cardinality(ent.starExportedExternalModules) > 0
    THEN Thrown(<<>>, starExportMessage(ent))
    ELSE LET opening == <<Call("ensureSkippedLine", "namespace", e, ""),
                          Call("writeLine", "namespace", e,
                               "declare namespace " \o ent.nameForEmit \o " {"),
                          Call("increaseIndent", "namespace", e, ""),
                          Call("writeLine", "namespace", e, "export {"),
                          Call("increaseIndent", "namespace", e, "")>>
             exported == exportClauses(ent, 1)
         IN IF exported.error # "" THEN Thrown(opening, exported.error)
            ELSE Emitted(opening
                     \o <<Call("writeLine", "namespace", e, Join(exported.clauses, ",\n")),
                          Call("decreaseIndent", "namespace", e, ""),
                          Call("writeLine", "namespace", e, "}"),
                          Call("decreaseIndent", "namespace", e, ""),
                          Call("writeLine", "namespace", e, "}")>>)

\* The export statement of one export name, with the messages associated to it
emitExport(ent, e, exportName) ==
    LET associatedMessages == associatedMessagesOf(ent, exportName)
    IN (IF Len(associatedMessages) > 0
        THEN <<Call("ensureSkippedLine", "exportWarning", e, "")>>
             \o Flatten([k \in 1..Len(associatedMessages) |->
                            commentCalls("exportWarning", e,
                                         WarningLines(associatedMessages[k]))])
        ELSE <<>>)
       \o emitNamedExport(exportName, ent, e)

emitExports(ent, e) ==
    Flatten([k \in 1..Len(exportNamesToEmit(ent)) |-> emitExport(ent, e, exportNamesToEmit(ent)[k])])
    \o <<Call("ensureSkippedLine", "export", e, "")>>

\* The body of the loop over collector.entities
emitEntity(config, ent, e) ==
    IF ~isEmitted(config, ent) THEN Emitted(<<>>)
    ELSE andThen(andThen(IF ent.astEntity = "AstSymbol"
                         THEN emitDeclarations(config, ent, e, 1)
                         ELSE Emitted(<<>>),
                         IF ent.astEntity = "AstNamespaceImport"
                         THEN emitNamespaceImport(ent, e)
                         ELSE Emitted(<<>>)),
                 Emitted(emitExports(ent, e)))

\* message.formatMessageWithLocation
formatMessageWithLocation(message) == <<message.location \o " - " \o message.lines[1]>> \o Tail(message.lines)

\* A closing part that writes the star exports after the trailing notes.
finishReport_StarExportsLast(config) ==
    LET unassociatedMessages == config.package.unassociatedMessages
    IN (IF Len(unassociatedMessages) > 0
        THEN <<Call("ensureSkippedLine", "unassociated", 0, "")>>
             \o commentCalls("unassociated", 0, <<"Warnings were encountered during analysis:">>)
             \o commentCalls("unassociated", 0, <<"">>)
             \o Flatten([k \in 1..Len(unassociatedMessages) |->
                            commentCalls("unassociated", 0,
                                         formatMessageWithLocation(unassociatedMessages[k]))])
        ELSE <<>>)
       \o (IF ~config.package.hasTsdocComment
           THEN <<Call("ensureSkippedLine", "noPackageDoc", 0, "")>>
                \o commentCalls("noPackageDoc", 0,
                                <<"(No @packageDocumentation comment for this package)">>)
           ELSE <<>>)
       \o emitStarExports(config.package.starExportedExternalModulePaths)
       \o <<Call("ensureSkippedLine", "closingFence", 0, ""),
            Call("writeLine", "closingFence", 0, Fence)>>

\* The star exports, the unassociated warnings, the note about the package
\* documentation and the closing fence
finishReport(config) ==
    LET unassociatedMessages == config.package.unassociatedMessages
    IN emitStarExports(config.package.starExportedExternalModulePaths)
       \o (IF Len(unassociatedMessages) > 0
           THEN <<Call("ensureSkippedLine", "unassociated", 0, "")>>
                \o commentCalls("unassociated", 0, <<"Warnings were encountered during analysis:">>)
                \o commentCalls("unassociated", 0, <<"">>)
                \o Flatten([k \in 1..Len(unassociatedMessages) |->
                               commentCalls("unassociated", 0,
                                            formatMessageWithLocation(unassociatedMessages[k]))])
           ELSE <<>>)
       \o (IF ~config.package.hasTsdocComment
           THEN <<Call("ensureSkippedLine", "noPackageDoc", 0, "")>>
                \o commentCalls("noPackageDoc", 0,
                                <<"(No @packageDocumentation comment for this package)">>)
           ELSE <<>>)
       \o <<Call("ensureSkippedLine", "closingFence", 0, ""),
            Call("writeLine", "closingFence", 0, Fence)>>

PlainPackage ==
    [name |-> "widgets", dtsTypeReferenceDirectives |-> {}, dtsLibReferenceDirectives |-> {},
     starExportedExternalModulePaths |-> <<>>, unassociatedMessages |-> <<>>,
     hasTsdocComment |-> TRUE]

IdleReport ==
    /\ reportConfig = [releaseLevel |-> Untrimmed, apiReportIncludeForgottenExports |-> FALSE,
                       package |-> PlainPackage]
    /\ entities = <<>>
    /\ entityIndex = 0
    /\ writer = <<>>
    /\ gpc = "idle"
    /\ thrown = ""

(***************************************************************************)
(* The final pass of generateReviewFileContent:                            *)
(* writer.toString().replace(ApiReportGenerator._trimSpacesRegExp, '')     *)
(*                                                                         *)
(* The text is a sequence of characters: a letter, the space, the tab and  *)
(* the two line terminators before which $ matches under the m flag.       *)
(***************************************************************************)
LineTerminators == {"\n", "\r"}
TextCharacters == {"a", " ", "\t"} \cup LineTerminators

\* The longest text drawn
MaxTextLen == 4
Texts == UNION {[1..n -> TextCharacters] : n \in 0..MaxTextLen}

\* The spaces a text starts with, and what follows them
RECURSIVE SkipSpaces(_)
SkipSpaces(text) ==
    IF text # <<>> /\ Head(text) = " " THEN SkipSpaces(Tail(text)) ELSE text

LeadingSpaces(text) == SubSeq(text, 1, Len(text) - Len(SkipSpaces(text)))

\* $ under the m flag: at the end of the text, or before a line terminator
AtLineEnd(rest) == rest = <<>> \/ Head(rest) \in LineTerminators

\* A replace without the m flag: $ matches at the end of the text only.
RECURSIVE trimSpaces_LastLineOnly(_)
trimSpaces_LastLineOnly(text) ==
    IF text = <<>> THEN <<>>
    ELSE IF Head(text) = " "
         THEN (IF SkipSpaces(text) = <<>> THEN <<>> ELSE LeadingSpaces(text))
              \o trimSpaces_LastLineOnly(SkipSpaces(text))
         ELSE <<Head(text)>> \o trimSpaces_LastLineOnly(Tail(text))

\* text.replace(/ +$/gm, '')
RECURSIVE trimSpaces(_)
trimSpaces(text) ==
    IF text = <<>> THEN <<>>
    ELSE IF Head(text) = " "
         THEN (IF AtLineEnd(SkipSpaces(text)) THEN <<>> ELSE LeadingSpaces(text))
              \o trimSpaces(SkipSpaces(text))
         ELSE <<Head(text)>> \o trimSpaces(Tail(text))

IdleTrim ==
    /\ writerText = <<>>
    /\ returnedText = <<>>

(***************************************************************************)
(* ScopedCommandLineAction and its InternalScopedCommandLineParser         *)
(*                                                                         *)
(* A field that is undefined is <<>>, a defined one is <<value>>.          *)
(***************************************************************************)
\* The arguments a command line can hold after the action's own parameters
ScopedArguments == {"--", "--help", "--verbose", "extra"}

\* The most arguments after the action's own parameters
MaxArgs == 2

ArgLists == UNION {[1..n -> ScopedArguments] : n \in 0..MaxArgs}

\* new InternalScopedCommandLineParser(...): this._canExecute = false
NewScopedParser == [canExecute |-> FALSE, outcome |-> "", args |-> <<>>]

\* What executeWithoutErrorHandling of the scoped parser can do with its
\* arguments: reach its execute stage and call onExecute, return before that
\* stage (help was printed), or throw (a parse error, or the exit error of help)
ParserOutcomes == {"executed", "exited", "threw"}

\* InternalScopedCommandLineParser.onExecute
onExecuteOfParser(parser) == [parser EXCEPT !.canExecute = TRUE]

\* this._scopedCommandLineParser.executeWithoutErrorHandling(scopedArgs)
executeWithoutErrorHandling(parser, args, outcome) ==
    IF outcome = "executed"
    THEN [onExecuteOfParser(parser) EXCEPT !.outcome = outcome, !.args = <<args>>]
    ELSE [parser EXCEPT !.outcome = outcome, !.args = <<args>>]

UsageError(first) == "error: Unrecognized arguments: " \o first \o ".\n"

\* A first part of _execute that hands every remainder value to the scoped parser.
scopedArgsOf_NoSeparator(options, parser, rem) ==
    IF options = <<>> \/ parser = <<>>
    THEN [error |-> "The CommandLineAction parameters must be processed before execution.",
          scopedArgs |-> <<>>]
    ELSE IF rem = <<>>
    THEN [error |-> "CommandLineAction.onDefineParameters must be called before execution.",
          scopedArgs |-> <<>>]
    ELSE [error |-> "", scopedArgs |-> rem[1].values]

\* The first part of _execute, up to the call of the scoped parser: the error
\* thrown ("" for none) and the scoped arguments
scopedArgsOf(options, parser, rem) ==
    IF options = <<>> \/ parser = <<>>
    THEN [error |-> "The CommandLineAction parameters must be processed before execution.",
          scopedArgs |-> <<>>]
    ELSE IF rem = <<>>
    THEN [error |-> "CommandLineAction.onDefineParameters must be called before execution.",
          scopedArgs |-> <<>>]
    ELSE IF Len(rem[1].values) > 0
    THEN IF rem[1].values[1] # "--"
         THEN [error |-> UsageError(rem[1].values[1]), scopedArgs |-> <<>>]
         ELSE [error |-> "", scopedArgs |-> Tail(rem[1].values)]
    ELSE [error |-> "", scopedArgs |-> <<>>]

IdleScoped ==
    /\ argv = <<>>
    /\ hasScopingParameters = FALSE
    /\ unscopedParserOptions = <<>>
    /\ scopedCommandLineParser = <<>>
    /\ remainder = <<>>
    /\ scopedArgs = <<>>
    /\ onExecuteCalls = 0
    /\ scopedError = ""
    /\ scopedPc = "unused"

(***************************************************************************)
(* ShrinkwrapFileFactory: the two static factories that pick a shrinkwrap  *)
(* class by the package manager's name.                                    *)
(***************************************************************************)

\* the result of a factory that has not been called
NotCalled == [status |-> "idle", value |-> "", source |-> ""]

\* no factory has been called and no argument drawn
IdleShrinkwrap ==
    /\ packageManager = ""
    /\ shrinkwrapFilename = ""
    /\ shrinkwrapContent = ""
    /\ getResult = NotCalled
    /\ parseResult = NotCalled

\* throw new Error('Invalid package manager: ' + packageManager)
InvalidPackageManager(pm) ==
    [status |-> "thrown", value |-> "Invalid package manager: " \o pm, source |-> ""]

\* XxxShrinkwrapFile.loadFromFile(shrinkwrapFilename): the file's object, or
\* undefined (the factories' return type is BaseShrinkwrapFile | undefined)
loadFromFile(class, filename) ==
    { [status |-> "returned", value |-> v, source |-> filename] : v \in {class, "undefined"} }

\* XxxShrinkwrapFile.loadFromString(shrinkwrapContent)
loadFromString(class, content) ==
    { [status |-> "returned", value |-> v, source |-> content] : v \in {class, "undefined"} }

\* ShrinkwrapFileFactory.getShrinkwrapFile: the outcomes the call can have
getShrinkwrapFile(pm, shrinkwrapFilenameArg) ==
    CASE pm = "npm" -> loadFromFile("NpmShrinkwrapFile", shrinkwrapFilenameArg)
      [] pm = "pnpm" -> loadFromFile("PnpmShrinkwrapFile", shrinkwrapFilenameArg)
      [] pm = "yarn" -> loadFromFile("YarnShrinkwrapFile", shrinkwrapFilenameArg)
      [] pm = "bun" -> loadFromFile("BunShrinkwrapFile", shrinkwrapFilenameArg)
      [] OTHER -> {InvalidPackageManager(pm)}

\* ShrinkwrapFileFactory.parseShrinkwrapFile: the outcomes the call can have
parseShrinkwrapFile(pm, shrinkwrapContentArg) ==
    CASE pm = "npm" -> loadFromString("NpmShrinkwrapFile", shrinkwrapContentArg)
      [] pm = "pnpm" -> loadFromString("PnpmShrinkwrapFile", shrinkwrapContentArg)
      [] pm = "bun" -> loadFromString("BunShrinkwrapFile", shrinkwrapContentArg)
      [] OTHER -> {InvalidPackageManager(pm)}

(***************************************************************************)
(* SpecFilter: a declaration and two thresholds are drawn, and the filter  *)
(* is asked about the declaration under each of them.                      *)
(***************************************************************************)
FilterDecls == [isPrivate : BOOLEAN, effectiveReleaseTag : ReleaseTags]

AllMetas ==
    [isPrivate : {FALSE}, effectiveReleaseTag : ReleaseTags,
     releaseTagSameAsParent : BOOLEAN, isSealed : BOOLEAN, isVirtual : BOOLEAN,
     isOverride : BOOLEAN, isEventProperty : BOOLEAN, isDeprecated : BOOLEAN,
     undocumented : BOOLEAN, isPreapproved : {FALSE}, isAncillary : BOOLEAN]

\* A message of one line and a message of two lines
OneLineMessage == Message(<<"ae-forgotten-export: The symbol needs to be exported">>, "")
TwoLineMessage == Message(<<"TS2304: Cannot find name", "  in the heritage clause">>, "")

MessageLists ==
    {<<>>, <<OneLineMessage>>, <<TwoLineMessage>>, <<OneLineMessage, TwoLineMessage>>}

NoSynopsis == [lines |-> <<>>, warnings |-> <<>>, parts |-> <<>>, raised |-> FALSE]

IdleSynopsis ==
    /\ synopsisInput = [meta |-> DefaultMeta, messages |-> <<>>]
    /\ synopsisResult = [computed |-> FALSE, synopsis |-> NoSynopsis]

IdleFilter ==
    /\ filterDecl = [isPrivate |-> FALSE, effectiveReleaseTag |-> ReleaseTag_None]
    /\ filterLevels = <<Untrimmed, Untrimmed>>
    /\ filterResults = <<NotEvaluated, NotEvaluated>>

IdleModify ==
    /\ tree = VariableShape
    /\ collector = [meta |-> <<>>, messages |-> <<>>, names |-> <<>>]
    /\ entity = [shouldInlineExport |-> FALSE]
    /\ releaseLevel = Untrimmed
    /\ spanState = NewState(VariableShape)
    /\ written = <<>>
    /\ spc = "idle"

InitFilter ==
    /\ filterDecl \in FilterDecls
    /\ filterLevels \in [1..2 -> Levels]
    /\ filterResults = [i \in 1..2 |-> NotEvaluated]
    /\ IdleModify
    /\ IdleSynopsis
    /\ IdleEquiv
    /\ IdleReport
    /\ IdleTrim
    /\ IdleScoped
    /\ IdleShrinkwrap

EvalFilter(i) ==
    /\ filterResults[i] = NotEvaluated
    /\ filterResults' = [filterResults EXCEPT ![i] =
           shouldIncludeInReport(filterDecl.isPrivate, filterDecl.effectiveReleaseTag,
                                 filterLevels[i])]
    /\ UNCHANGED <<shrinkwrapVars, scopedVars, trimVars, reportVars, equivVars, filterDecl, filterLevels, modifyVars, synopsisVars>>

NextFilter == \E i \in 1..2 : EvalFilter(i)

SpecFilter == InitFilter /\ [][NextFilter]_vars

Evaluated(i) == filterResults[i] # NotEvaluated
Included(i) == ~filterResults[i].threw /\ filterResults[i].value

\* The effective release tag, an unspecified tag counting as @public.
TagOf(d) ==
    IF d.effectiveReleaseTag = ReleaseTag_None THEN ReleaseTag_Public ELSE d.effectiveReleaseTag

\* C1: for a non-private declaration and a valid threshold the filter returns
\* (never throws), and returns true exactly when the threshold is Untrimmed, or
\* Alpha with tag >= @alpha, or Beta with tag >= @beta, or Public with tag = @public,
\* an unspecified tag counting as @public.
C1_InclusionRule ==
    \A i \in 1..2 :
        (Evaluated(i) /\ ~filterDecl.isPrivate /\ filterLevels[i] \in ValidLevels) =>
            /\ ~filterResults[i].threw
            /\ filterResults[i].value <=>
                  \/ filterLevels[i] = Untrimmed
                  \/ filterLevels[i] = Alpha /\ TagOf(filterDecl) >= ReleaseTag_Alpha
                  \/ filterLevels[i] = Beta /\ TagOf(filterDecl) >= ReleaseTag_Beta
                  \/ filterLevels[i] = Public /\ TagOf(filterDecl) = ReleaseTag_Public

\* An untagged, non-private declaration was included at threshold Public, and the
\* same declaration was asked about at threshold Beta.
C1_Witness ==
    /\ ~filterDecl.isPrivate
    /\ filterDecl.effectiveReleaseTag = ReleaseTag_None
    /\ filterLevels[1] = Public /\ Evaluated(1) /\ Included(1)
    /\ filterLevels[2] = Beta /\ Evaluated(2) /\ Included(2)

\* C3 as stated: whatever the declaration's modifiers and tag, a threshold outside
\* the enum makes the filter throw and never return.
C3_AlwaysThrows ==
    \A i \in 1..2 :
        (Evaluated(i) /\ filterLevels[i] \notin ValidLevels) => filterResults[i].threw

\* C3 (amended): for a declaration without the private modifier, a threshold outside
\* the enum makes the filter throw "Unrecognized release level" and never return; a
\* private declaration is rejected (false) before the threshold is looked at.
C3_ThrowsUnlessPrivate ==
    \A i \in 1..2 :
        (Evaluated(i) /\ filterLevels[i] \notin ValidLevels) =>
            IF filterDecl.isPrivate
            THEN filterResults[i] = Return(FALSE)
            ELSE filterResults[i] = Throw("Unrecognized release level")

\* A non-private declaration met a threshold above Public and one below Untrimmed.
C3_Witness ==
    /\ ~filterDecl.isPrivate
    /\ filterLevels[1] > Public /\ Evaluated(1) /\ filterResults[1].threw
    /\ filterLevels[2] < Untrimmed /\ Evaluated(2) /\ filterResults[2].threw

\* C4: among valid thresholds, T1 <= T2 and included(D, T2) imply included(D, T1).
C4_Monotone ==
    \A i, j \in 1..2 :
        (/\ Evaluated(i) /\ Evaluated(j)
         /\ filterLevels[i] \in ValidLevels /\ filterLevels[j] \in ValidLevels
         /\ filterLevels[i] <= filterLevels[j]
         /\ Included(j)) => Included(i)

\* A @public declaration was included at Public and at the lower threshold Beta.
C4_Witness ==
    /\ filterLevels[1] = Beta /\ filterLevels[2] = Public
    /\ Evaluated(1) /\ Evaluated(2)
    /\ Included(2) /\ Included(1)
    /\ filterDecl.effectiveReleaseTag = ReleaseTag_Public

(***************************************************************************)
(* SpecModify: a declaration's syntax tree, its metadata, the entity and   *)
(* the release level are drawn; a Span is built from the tree, rewritten   *)
(* (ModifyDeclaration) and written (WriteDeclaration), or written as it    *)
(* was built (WriteUnmodified).                                            *)
(***************************************************************************)
ModifyTags == {ReleaseTag_None, ReleaseTag_Beta, ReleaseTag_Public}
ModifyLevels == ValidLevels \cup {Public + 1}

\* nameForEmit of the entity the declaration belongs to ("self") and of the
\* entity its type reference names ("other")
NameTables ==
    {[self |-> "Entity_2", other |-> "Gadget"],
     [self |-> "Entity_2", other |-> Undefined],
     [self |-> Undefined, other |-> "Gadget"]}

\* The declaration a declaration is nested in (0: none)
ParentDecl(t, n) == IF t.nodes[n].parent = 0 THEN 0 ELSE DeclOf(t, t.nodes[n].parent)

\* releaseTagSameAsParent, as the tags of a declaration and its parent give it
WithInheritance(t, metas) ==
    [n \in DeclNodes(t) |->
        [metas[n] EXCEPT !.releaseTagSameAsParent =
            /\ ParentDecl(t, n) # 0
            /\ metas[ParentDecl(t, n)].effectiveReleaseTag = metas[n].effectiveReleaseTag]]

NoMessages(t) == [n \in DeclNodes(t) |-> <<>>]

\* The first declaration nested in the root (the root itself if there is none)
FirstMember(t) ==
    IF DeclNodes(t) = {1} THEN 1 ELSE CHOOSE n \in DeclNodes(t) \ {1} :
                                         \A k \in DeclNodes(t) \ {1} : n <= k

\* Visibility: every declaration of the tree has a private flag and a tag of its own.
InitVisibility ==
    /\ releaseLevel \in ModifyLevels
    /\ entity = [shouldInlineExport |-> TRUE]
    /\ \E flags \in [DeclNodes(tree) -> [isPrivate : BOOLEAN, effectiveReleaseTag : ModifyTags]] :
          collector = [meta |-> WithInheritance(tree,
                                  [n \in DeclNodes(tree) |->
                                      [DefaultMeta EXCEPT
                                          !.isPrivate = flags[n].isPrivate,
                                          !.effectiveReleaseTag = flags[n].effectiveReleaseTag]]),
                       messages |-> NoMessages(tree),
                       names |-> [self |-> "Entity_2", other |-> "Gadget"]]

\* Thresholds: the root and its first member take every flag and tag, under every
\* release level, valid or not.
InitThresholds ==
    /\ releaseLevel \in Levels
    /\ entity = [shouldInlineExport |-> TRUE]
    /\ \E root \in FilterDecls, member \in FilterDecls :
          collector = [meta |-> WithInheritance(tree,
                                  [n \in DeclNodes(tree) |->
                                      IF n = 1
                                      THEN [DefaultMeta EXCEPT
                                               !.isPrivate = root.isPrivate,
                                               !.effectiveReleaseTag = root.effectiveReleaseTag]
                                      ELSE IF n = FirstMember(tree)
                                      THEN [DefaultMeta EXCEPT
                                               !.isPrivate = member.isPrivate,
                                               !.effectiveReleaseTag = member.effectiveReleaseTag]
                                      ELSE DefaultMeta]),
                       messages |-> NoMessages(tree),
                       names |-> [self |-> "Entity_2", other |-> "Gadget"]]

\* Decoration: one tag for the whole tree; members may be private, every declaration
\* may be undocumented, the root may be pre-approved, the export may be inlined, and
\* an entity may lack its nameForEmit.
InitDecoration ==
    /\ releaseLevel \in {Untrimmed, Public}
    /\ entity \in [shouldInlineExport : BOOLEAN]
    /\ \E tag \in ModifyTags, preapproved \in BOOLEAN, names \in NameTables,
          flags \in [DeclNodes(tree) -> [isPrivate : BOOLEAN, undocumented : BOOLEAN]] :
          /\ ~flags[1].isPrivate
          /\ collector = [meta |-> WithInheritance(tree,
                                     [n \in DeclNodes(tree) |->
                                         [DefaultMeta EXCEPT
                                             !.isPrivate = flags[n].isPrivate,
                                             !.undocumented = flags[n].undocumented,
                                             !.effectiveReleaseTag = tag,
                                             !.isPreapproved = (n = 1 /\ preapproved)]]),
                          messages |-> NoMessages(tree),
                          names |-> names]

InitModify ==
    /\ IdleFilter
    /\ IdleSynopsis
    /\ tree \in Shapes
    /\ InitVisibility \/ InitThresholds \/ InitDecoration
    /\ spanState = NewState(tree)
    /\ written = <<>>
    /\ spc = "new"
    /\ IdleEquiv
    /\ IdleReport
    /\ IdleTrim
    /\ IdleScoped
    /\ IdleShrinkwrap

\* What _modifySpan reads
ModifyCtx ==
    [tree |-> tree, meta |-> collector.meta, messages |-> collector.messages,
     names |-> collector.names, shouldInlineExport |-> entity.shouldInlineExport,
     releaseLevel |-> releaseLevel]

IsPreapproved == collector.meta[1].isPreapproved

\* const span = new Span(astDeclaration.declaration); if (apiItemMetadata.isPreapproved)
\* _modifySpanForPreapproved(span) else _modifySpan(..., false, options.releaseLevel)
ModifyDeclaration ==
    /\ spc = "new"
    /\ LET st == IF IsPreapproved
                 THEN [spanState EXCEPT !.mods = modifySpanForPreapproved(tree, @, 1)]
                 ELSE modifySpan(ModifyCtx, spanState, 1, 1, FALSE)
       IN /\ spanState' = st
          /\ spc' = IF st.error # "" THEN "failed" ELSE "modified"
    /\ UNCHANGED <<shrinkwrapVars, scopedVars, trimVars, reportVars, equivVars, filterVars, synopsisVars, tree, collector, entity, releaseLevel, written>>

\* span.writeModifiedText(writer)
WriteDeclaration ==
    /\ spc = "modified"
    /\ written' = writeModifiedText(tree, spanState.mods, 1)
    /\ spc' = "written"
    /\ UNCHANGED <<shrinkwrapVars, scopedVars, trimVars, reportVars, equivVars, filterVars, synopsisVars, tree, collector, entity, releaseLevel, spanState>>

\* A Span written with no modification applied to it
WriteUnmodified ==
    /\ spc = "new"
    /\ written' = writeModifiedText(tree, spanState.mods, 1)
    /\ spc' = "passthrough"
    /\ UNCHANGED <<shrinkwrapVars, scopedVars, trimVars, reportVars, equivVars, filterVars, synopsisVars, tree, collector, entity, releaseLevel, spanState>>

NextModify == ModifyDeclaration \/ WriteDeclaration \/ WriteUnmodified

SpecModify == InitModify /\ [][NextModify]_vars

\* The declarations of the tree that carry the private modifier
PrivateDecls == {d \in DeclNodes(tree) : collector.meta[d].isPrivate}

FilterEvents == {i \in DOMAIN spanState.log : spanState.log[i].op = "filter"}

\* The writes of a span itself (its prefix and suffix, not the separator after it)
OwnPieces(n) ==
    {i \in DOMAIN written : written[i].span = n /\ written[i].part # "separator"}

\* C2: a declaration with the private modifier is never included: whatever the
\* release level (valid or not) and the release tag, every verdict of the filter on
\* it is "false", and nothing the span writer writes for a declaration rewritten by
\* _modifySpan comes from the private declaration's span or from a span inside it.
C2_PrivateNeverIncluded ==
    /\ \A i \in FilterEvents :
          spanState.log[i].decl \in PrivateDecls => spanState.log[i].verdict = Return(FALSE)
    /\ (spc = "written" /\ ~IsPreapproved) =>
          \A i \in DOMAIN written :
              \A d \in PrivateDecls : ~IsWithin(tree, written[i].span, d)

\* A class was written whose first member is private and whose other member is not.
C2_Witness ==
    /\ spc = "written" /\ ~IsPreapproved /\ tree = ClassShape
    /\ PrivateDecls = {10}
    /\ \E i \in FilterEvents :
          spanState.log[i].decl = 10 /\ spanState.log[i].verdict = Return(FALSE)
    /\ \E i \in DOMAIN written : IsWithin(tree, written[i].span, 16)

\* The identifiers of the tree that resolve to a tracked entity
ResolvedIdentifiers ==
    {n \in NodesOf(tree) : tree.nodes[n].kind = "Identifier" /\ tree.nodes[n].refers # ""}

\* C5: after _modifySpan and the write, what is written for an identifier that
\* resolves to a tracked entity is the entity's nameForEmit and nothing else: the
\* source text of the identifier is not written.
C5_RenameConsistency ==
    (spc = "written" /\ ~IsPreapproved) =>
        \A n \in ResolvedIdentifiers :
            /\ Cardinality(OwnPieces(n)) <= 1
            /\ \A i \in OwnPieces(n) :
                  written[i].text = collector.names[tree.nodes[n].refers]

\* The class was written with its name and the type of its first member renamed.
C5_Witness ==
    /\ spc = "written" /\ ~IsPreapproved /\ tree = ClassShape
    /\ \E i \in OwnPieces(7) : written[i].text = "Entity_2"
    /\ \E i \in OwnPieces(14) : written[i].text = "Gadget"

\* C8: a Span written with every modification as the constructor left it reproduces
\* the source text of the root's range.
C8_Identity ==
    spc = "passthrough" =>
        PiecesText(written) = TextRange(tree, tree.nodes[1].start, tree.nodes[1].end)

\* The class was written untouched: its comment, its keywords and its closing brace
\* are all there.
C8_Witness ==
    /\ spc = "passthrough" /\ tree = ClassShape
    /\ spanState.mods = NewModification(tree)
    /\ written[1].text = "/** A widget. */"
    /\ written[Len(written)].text = "}"
    /\ \E i \in DOMAIN written : written[i].part = "separator" /\ written[i].text = "\n  "

(***************************************************************************)
(* SpecSynopsis: the metadata of a declaration and the messages to report  *)
(* are drawn, and _getAedocSynopsis is called on them.                     *)
(***************************************************************************)
InitSynopsis ==
    /\ IdleFilter
    /\ IdleModify
    /\ synopsisInput \in [meta : AllMetas, messages : MessageLists]
    /\ synopsisResult = [computed |-> FALSE, synopsis |-> NoSynopsis]
    /\ IdleEquiv
    /\ IdleReport
    /\ IdleTrim
    /\ IdleScoped
    /\ IdleShrinkwrap

ComputeSynopsis ==
    /\ ~synopsisResult.computed
    /\ synopsisResult' =
           [computed |-> TRUE,
            synopsis |-> getAedocSynopsis(synopsisInput.meta, synopsisInput.messages)]
    /\ UNCHANGED <<shrinkwrapVars, scopedVars, trimVars, reportVars, equivVars, filterVars, modifyVars, synopsisInput>>

NextSynopsis == ComputeSynopsis

SpecSynopsis == InitSynopsis /\ [][NextSynopsis]_vars

\* The synopsis names a release tag
HasTagName(synopsis) == \E i \in DOMAIN synopsis.parts : synopsis.parts[i] \in TagNames

\* C7 as stated: the synopsis of a non-ancillary declaration names the release tag
\* only if the tag differs from the parent's and is not the default, @public; a
\* top-level declaration tagged @public gets no tag in its synopsis.
C7_NoTagForPublic ==
    (synopsisResult.computed /\ ~synopsisInput.meta.isAncillary) =>
        (HasTagName(synopsisResult.synopsis) =>
            /\ ~synopsisInput.meta.releaseTagSameAsParent
            /\ synopsisInput.meta.effectiveReleaseTag # ReleaseTag_Public)

\* C7 (amended): the synopsis of a non-ancillary declaration names the release tag
\* only if the tag differs from the parent's (releaseTagSameAsParent is false) and
\* is not unspecified (ReleaseTag.None); @public is no default: a declaration tagged
\* @public whose tag is not its parent's (a top-level one) gets "@public" as the
\* first part of its synopsis line.
C7_TagUnlessInheritedOrNone ==
    (synopsisResult.computed /\ ~synopsisInput.meta.isAncillary) =>
        /\ HasTagName(synopsisResult.synopsis) =>
              /\ ~synopsisInput.meta.releaseTagSameAsParent
              /\ synopsisInput.meta.effectiveReleaseTag # ReleaseTag_None
        /\ (/\ synopsisInput.meta.effectiveReleaseTag = ReleaseTag_Public
            /\ ~synopsisInput.meta.releaseTagSameAsParent) =>
              /\ synopsisResult.synopsis.parts # <<>>
              /\ synopsisResult.synopsis.parts[1] = "@public"
              /\ synopsisResult.synopsis.lines # <<>>

\* The synopsis of a documented top-level @public declaration with no message is the
\* one line "// @public".
C7_Witness ==
    /\ synopsisResult.computed
    /\ ~synopsisInput.meta.isAncillary
    /\ synopsisInput.meta.effectiveReleaseTag = ReleaseTag_Public
    /\ ~synopsisInput.meta.releaseTagSameAsParent
    /\ synopsisResult.synopsis.lines = <<"// @public\n">>

(***************************************************************************)
(* SpecEquiv: two file contents are drawn and compared by                  *)
(* areEquivalentApiFileContents.                                           *)
(***************************************************************************)
InitEquiv ==
    /\ IdleFilter
    /\ IdleModify
    /\ IdleSynopsis
    /\ actualFileContent \in FileContents
    /\ expectedFileContent \in FileContents
    /\ equivResult = <<>>
    /\ IdleReport
    /\ IdleTrim
    /\ IdleScoped
    /\ IdleShrinkwrap

CompareContents ==
    /\ equivResult = <<>>
    /\ equivResult' = <<areEquivalentApiFileContents(actualFileContent, expectedFileContent)>>
    /\ UNCHANGED <<shrinkwrapVars, scopedVars, trimVars, reportVars, filterVars, modifyVars, synopsisVars, actualFileContent, expectedFileContent>>

NextEquiv == CompareContents

SpecEquiv == InitEquiv /\ [][NextEquiv]_vars

InsertAt(content, p, text) ==
    SubSeq(content, 1, p) \o text \o SubSeq(content, p + 1, Len(content))

\* A blank line together with its line ending
BlankLines == {<<"\n">>, <<"\r", "\n">>, <<" ", "\n">>}

\* The positions of a content at which a line starts: its start, and after each
\* line feed.
LineStarts(content) == {0} \cup {p \in 1..Len(content) : content[p] = "\n"}

\* The contents made from one by inserting a blank line before one of its lines,
\* the first one included, or after its last line feed.
WithBlankLineAnywhere(content) ==
    {InsertAt(content, p, b) : p \in LineStarts(content), b \in BlankLines}

\* The same, but never before the first line: behind a line feed only.
WithBlankLineAfterBreak(content) ==
    {InsertAt(content, p, b) : p \in LineStarts(content) \ {0}, b \in BlankLines}

\* A content with every CRLF turned into LF
RECURSIVE ToLF(_)
ToLF(content) ==
    IF content = <<>> THEN <<>>
    ELSE IF Len(content) >= 2 /\ content[1] = "\r" /\ content[2] = "\n"
         THEN <<"\n">> \o ToLF(Tail(Tail(content)))
         ELSE <<Head(content)>> \o ToLF(Tail(content))

\* Two contents that differ in one letter and in nothing else
SingleTokenDifference(x, y) ==
    /\ Len(x) = Len(y)
    /\ \E p \in 1..Len(x) :
          /\ x[p] \in Letters /\ y[p] \in Letters /\ x[p] # y[p]
          /\ \A q \in 1..Len(x) : q # p => x[q] = y[q]

\* What the claim says of the relation apart from blank lines: line endings, one
\* changed token, and the laws of an equivalence.
EquivalenceLaws ==
    LET a == actualFileContent
        b == expectedFileContent
        r == equivResult[1]
    IN /\ (ToLF(a) = ToLF(b)) => r
       /\ SingleTokenDifference(a, b) => ~r
       /\ (a = b) => r
       /\ r = areEquivalentApiFileContents(b, a)
       /\ r => \A c \in FileContents :
                  areEquivalentApiFileContents(b, c) => areEquivalentApiFileContents(a, c)

\* C10 as stated: two contents that differ by a blank line inserted or removed
\* anywhere, at the start of the document included, or by CRLF against LF line
\* endings, are judged equivalent; two that differ in one token are not; the
\* relation is reflexive, symmetric and transitive.
C10_BlankLinesAnywhere ==
    (equivResult # <<>>) =>
        /\ (\/ expectedFileContent \in WithBlankLineAnywhere(actualFileContent)
            \/ actualFileContent \in WithBlankLineAnywhere(expectedFileContent))
              => equivResult[1]
        /\ EquivalenceLaws

\* C10 (amended): two contents that differ by a blank line inserted or removed
\* directly behind a line feed of the document (so not before its first line), or
\* by CRLF against LF line endings, are judged equivalent; two that differ in one
\* token are judged non-equivalent; the relation is reflexive, symmetric and
\* transitive.
C10_BlankLinesAfterBreak ==
    (equivResult # <<>>) =>
        /\ (\/ expectedFileContent \in WithBlankLineAfterBreak(actualFileContent)
            \/ actualFileContent \in WithBlankLineAfterBreak(expectedFileContent))
              => equivResult[1]
        /\ EquivalenceLaws

\* "a", line feed against "a", line feed, line feed: a blank line added at the end
\* of the document, judged equivalent.
C10_Witness ==
    /\ actualFileContent = <<"a", "\n">>
    /\ expectedFileContent = <<"a", "\n", "\n">>
    /\ expectedFileContent \in WithBlankLineAfterBreak(actualFileContent)
    /\ equivResult = <<TRUE>>

(***************************************************************************)
(* Spec: generateReviewFileContent on a collector whose entities, package  *)
(* and configuration are drawn.  BeginReport writes what precedes the loop *)
(* over the entities, EmitEntity is one pass of that loop, FinishReport    *)
(* writes what follows it and returns.                                     *)
(***************************************************************************)
BusyPackage ==
    [name |-> "widgets", dtsTypeReferenceDirectives |-> {"node", "jest"},
     dtsLibReferenceDirectives |-> {"es2015", "dom"},
     starExportedExternalModulePaths |-> <<"other-pkg">>,
     unassociatedMessages |->
        <<[location |-> "src/index.ts:3:1",
           lines |-> <<"(ae-misplaced-package-tag) The tag is misplaced">>]>>,
     hasTsdocComment |-> FALSE]

Packages == {PlainPackage, BusyPackage}

ReportLevels == {Beta, Public}
ReportTags == {ReleaseTag_Beta, ReleaseTag_Public}

\* The messages fetched for a declaration: none, or three of them - one without
\* an export name, one that names the export "count", one that names an export
\* the entity does not have
ReportMessageLists ==
    {<<>>,
     <<Message(<<"(ae-missing-release-tag) The symbol is part of the public API,",
                 "but is missing a release tag">>, ""),
       Message(<<"(ae-forgotten-export) The symbol needs to be exported">>, "count"),
       Message(<<"(ae-internal-missing-underscore) The name should start with _">>,
               "other")>>}

NoLocation == [fileName |-> "", line |-> "", column |-> ""]

\* An entity whose astEntity is an AstSymbol with one declaration, "count: number"
SymbolEntity(tag, preapproved, inline, consumable, messages) ==
    [astEntity |-> "AstSymbol", nameForEmit |-> "count", consumable |-> consumable,
     exportNames |-> <<"count">>, shouldInlineExport |-> inline,
     astDeclarations |->
        <<[tree |-> VariableShape,
           meta |-> [n \in DeclNodes(VariableShape) |->
                        [DefaultMeta EXCEPT !.effectiveReleaseTag = tag,
                                            !.isPreapproved = preapproved]],
           messages |-> messages]>>,
     starExportedExternalModules |-> {}, exportedLocalEntities |-> <<>>,
     declaration |-> NoLocation, modulePath |-> ""]

\* An entity whose astEntity is an AstSymbol with one declaration, the class
\* "Widget" with its two members, tagged @public
ClassEntity(preapproved, inline) ==
    [astEntity |-> "AstSymbol", nameForEmit |-> "Widget", consumable |-> TRUE,
     exportNames |-> <<"Widget">>, shouldInlineExport |-> inline,
     astDeclarations |->
        <<[tree |-> ClassShape,
           meta |-> [n \in DeclNodes(ClassShape) |->
                        [DefaultMeta EXCEPT !.releaseTagSameAsParent = (n # 1),
                                            !.isPreapproved = (n = 1 /\ preapproved)]],
           messages |-> <<>>]>>,
     starExportedExternalModules |-> {}, exportedLocalEntities |-> <<>>,
     declaration |-> NoLocation, modulePath |-> ""]

\* An entity whose astEntity is an AstNamespaceImport (import * as ns from "./ns")
NamespaceEntity(nameForEmit, consumable, starExportedExternalModules) ==
    [astEntity |-> "AstNamespaceImport", nameForEmit |-> nameForEmit,
     consumable |-> consumable, exportNames |-> <<"ns">>, shouldInlineExport |-> FALSE,
     astDeclarations |-> <<>>,
     starExportedExternalModules |-> starExportedExternalModules,
     exportedLocalEntities |->
        <<[exportedName |-> "f1", localName |-> "f1", nameForEmit |-> "f1",
           hasCollectorEntity |-> TRUE],
          [exportedName |-> "f2", localName |-> "f2", nameForEmit |-> "f2_2",
           hasCollectorEntity |-> TRUE]>>,
     declaration |-> [fileName |-> "src/index.ts", line |-> "2", column |-> "1"],
     modulePath |-> "./ns"]

\* An entity whose astEntity is an AstImport
ImportEntity ==
    [astEntity |-> "AstImport", nameForEmit |-> "Lib", consumable |-> TRUE,
     exportNames |-> <<"Lib">>, shouldInlineExport |-> FALSE, astDeclarations |-> <<>>,
     starExportedExternalModules |-> {}, exportedLocalEntities |-> <<>>,
     declaration |-> NoLocation, modulePath |-> "lib"]

EntityChoices ==
    {SymbolEntity(tag, preapproved, inline, TRUE, messages) :
        tag \in ReportTags, preapproved \in BOOLEAN, inline \in BOOLEAN,
        messages \in ReportMessageLists}
    \cup {SymbolEntity(ReleaseTag_Public, FALSE, FALSE, FALSE, <<>>)}
    \cup {NamespaceEntity(nameForEmit, consumable, star) :
            nameForEmit \in {"ns", Undefined}, consumable \in BOOLEAN,
            star \in {{}, {"external-pkg"}}}
    \cup {ImportEntity}
    \cup {ClassEntity(preapproved, inline) : preapproved \in BOOLEAN, inline \in BOOLEAN}

\* The most entities a collector holds
MaxEntities == 2

Init ==
    /\ IdleFilter
    /\ IdleModify
    /\ IdleSynopsis
    /\ IdleEquiv
    /\ reportConfig \in [releaseLevel : ReportLevels,
                         apiReportIncludeForgottenExports : BOOLEAN,
                         package : Packages]
    /\ entities \in UNION {[1..n -> EntityChoices] : n \in 0..MaxEntities}
    /\ entityIndex = 0
    /\ writer = <<>>
    /\ gpc = "start"
    /\ thrown = ""
    /\ IdleTrim
    /\ IdleScoped
    /\ IdleShrinkwrap

BeginReport ==
    /\ gpc = "start"
    /\ writer' = writer \o beginReport(reportConfig, entities)
    /\ gpc' = "entities"
    /\ UNCHANGED <<shrinkwrapVars, scopedVars, trimVars, filterVars, modifyVars, synopsisVars, equivVars,
                   reportConfig, entities, entityIndex, thrown>>

\* The writer and the outcome after one pass of the loop
AfterEntity(result) ==
    /\ writer' = writer \o result.calls
    /\ thrown' = result.error
    /\ gpc' = IF result.error # "" THEN "failed" ELSE "entities"

EmitEntity ==
    /\ gpc = "entities"
    /\ entityIndex < Len(entities)
    /\ entityIndex' = entityIndex + 1
    /\ AfterEntity(emitEntity(reportConfig, entities[entityIndex + 1], entityIndex + 1))
    /\ UNCHANGED <<shrinkwrapVars, scopedVars, trimVars, filterVars, modifyVars, synopsisVars, equivVars, reportConfig, entities>>

FinishReport ==
    /\ gpc = "entities"
    /\ entityIndex = Len(entities)
    /\ writer' = writer \o finishReport(reportConfig)
    /\ gpc' = "returned"
    /\ UNCHANGED <<shrinkwrapVars, scopedVars, trimVars, filterVars, modifyVars, synopsisVars, equivVars,
                   reportConfig, entities, entityIndex, thrown>>

Next == BeginReport \/ EmitEntity \/ FinishReport

Spec == Init /\ [][Next]_vars

\* The entities the main loop has entered
Entered == 1..entityIndex

\* The texts written for an entity in the given blocks
TextsOf(e, blocks) ==
    {writer[k].text : k \in {j \in DOMAIN writer : writer[j].entity = e /\ writer[j].block \in blocks}}

\* An entity with a declaration tagged @beta that is not pre-approved
IsBetaSymbol(ent) ==
    /\ ent.astEntity = "AstSymbol"
    /\ \A d \in DOMAIN ent.astDeclarations :
          /\ ent.astDeclarations[d].meta[1].effectiveReleaseTag = ReleaseTag_Beta
          /\ ~ent.astDeclarations[d].meta[1].isPreapproved

\* C6 as stated: for an entity whose declaration is tagged @beta and is not
\* pre-approved, a report generated at release level Public holds neither
\* declaration text nor synopsis comment lines.
C6_BetaOmittedAtPublic ==
    \A e \in Entered :
        (reportConfig.releaseLevel = Public /\ IsBetaSymbol(entities[e])) =>
            TextsOf(e, {"synopsis", "declaration"}) \subseteq {""}

\* A namespace import whose module has a star-exported external module
HasStarExport(ent) ==
    ent.astEntity = "AstNamespaceImport" /\ ent.starExportedExternalModules # {}

\* Generation stopped at entity e with the star export error that names it, and
\* nothing of its namespace block was written.
AbortedAtStarExport(e) ==
    /\ gpc = "failed"
    /\ entityIndex = e
    /\ thrown = starExportMessage(entities[e])
    /\ TextsOf(e, {"namespace"}) = {}

\* C9 as stated: whenever the module of a namespace import entity has a
\* star-exported external module, generation aborts with the error that names the
\* namespace and its declaration, returns nothing, and has written no line of the
\* namespace block.
C9_StarExportAlwaysAborts ==
    \A e \in DOMAIN entities :
        (HasStarExport(entities[e]) /\ (e \in Entered \/ gpc = "returned")) =>
            AbortedAtStarExport(e)

\* C9 (amended): when generation reaches a namespace import entity that is emitted
\* (consumable, or forgotten exports are included), has a nameForEmit, and whose
\* module has a star-exported external module, it aborts there with the error that
\* names the namespace and its declaration, returns nothing, and has written no
\* line of the namespace block.
C9_StarExportAbortsWhenEmitted ==
    \A e \in Entered :
        (/\ HasStarExport(entities[e])
         /\ isEmitted(reportConfig, entities[e])
         /\ entities[e].nameForEmit # Undefined) =>
            AbortedAtStarExport(e)

\* The second entity is a consumable namespace import "ns" with a star export:
\* generation failed there, after the first entity was written.
C9_Witness ==
    /\ entityIndex = 2
    /\ HasStarExport(entities[2])
    /\ entities[2].consumable
    /\ gpc = "failed"
    /\ thrown = "The ns namespace import includes a star export, which is not supported:\nsrc/index.ts:2:1"
    /\ writer # <<>>
    /\ TextsOf(2, {"namespace"}) = {}
    /\ TextsOf(1, {"declaration"}) # {}

(***************************************************************************)
(* SpecTrim: the text of the writer is drawn, and the final pass of        *)
(* generateReviewFileContent trims it and returns it.                      *)
(***************************************************************************)
InitTrim ==
    /\ IdleFilter
    /\ IdleModify
    /\ IdleSynopsis
    /\ IdleEquiv
    /\ IdleReport
    /\ writerText \in Texts
    /\ returnedText = <<>>
    /\ IdleScoped
    /\ IdleShrinkwrap

\* return writer.toString().replace(ApiReportGenerator._trimSpacesRegExp, '')
ReturnTrimmed ==
    /\ returnedText = <<>>
    /\ returnedText' = <<trimSpaces(writerText)>>
    /\ UNCHANGED <<shrinkwrapVars, scopedVars, filterVars, modifyVars, synopsisVars, equivVars, reportVars, writerText>>

NextTrim == ReturnTrimmed

SpecTrim == InitTrim /\ [][NextTrim]_vars

\* The positions of a text at which a line ends with one of the given characters
LineEndsWith(text, chars) ==
    {p \in 1..Len(text) :
        /\ text[p] \in chars
        /\ (p = Len(text) \/ text[p + 1] \in LineTerminators)}

\* A text without its spaces
WithoutSpaces(text) == SelectSeq(text, LAMBDA ch : ch # " ")

\* C11 as stated: in the returned text no line ends with a whitespace character,
\* be it a space or another one such as a tab.
C11_NoTrailingWhitespace ==
    (returnedText # <<>>) => LineEndsWith(returnedText[1], {" ", "\t"}) = {}

\* C11 (amended): in the returned text no line ends with a space; only spaces are
\* removed, so every other character, a tab at the end of a line included, is
\* kept where it was.
C11_NoTrailingSpace ==
    (returnedText # <<>>) =>
        /\ LineEndsWith(returnedText[1], {" "}) = {}
        /\ WithoutSpaces(returnedText[1]) = WithoutSpaces(writerText)
        /\ Len(returnedText[1]) <= Len(writerText)
        /\ (LineEndsWith(writerText, {" "}) = {}) => returnedText[1] = writerText

\* Two lines that end with spaces, the first before a line feed: both are trimmed.
C11_Witness ==
    /\ writerText = <<"a", " ", "\n", " ">>
    /\ returnedText = <<<<"a", "\n">>>>


(***************************************************************************)
(* The order of the blocks of a report                                     *)
(***************************************************************************)
\* The place of a block in the report: the blocks written per entity share one.
BlockRank(block) ==
    CASE block = "header" -> 1
      [] block = "fence" -> 2
      [] block = "typeDirective" -> 3
      [] block = "libDirective" -> 4
      [] block = "directives" -> 5
      [] block = "import" -> 6
      [] block = "imports" -> 7
      [] block \in {"declaration", "synopsis", "namespace", "exportWarning", "export"} -> 8
      [] block = "starExport" -> 9
      [] block = "unassociated" -> 10
      [] block = "noPackageDoc" -> 11
      [] block = "closingFence" -> 12

\* The texts written in a block, in the order written
BlockTexts(block) ==
    LET calls == SelectSeq(writer, LAMBDA c : c.block = block)
    IN [k \in DOMAIN calls |-> calls[k].text]

\* The place of a directive name in the order of Array.prototype.sort
DirectiveRank(name) == CHOOSE k \in DOMAIN DirectiveOrder : DirectiveOrder[k] = name

\* The lines are one reference line per name of the set, in ascending order
IsSortedReferences(lines, kind, names) ==
    /\ Len(lines) = Cardinality(names)
    /\ \A k \in DOMAIN lines :
          \E n \in names :
             /\ lines[k] = "/// <reference " \o kind \o "=\"" \o n \o "\" />"
             /\ Cardinality({m \in names : DirectiveRank(m) < DirectiveRank(n)}) = k - 1

\* C12: in a report the blocks stand in a fixed order - header, opening fence,
\* type directive references (sorted, one per name), lib directive references
\* (sorted, one per name), imports in entity order, the blocks of the entities in
\* entity order, star exports, unassociated diagnostics, the note about the
\* missing package documentation, closing fence - and nothing of an earlier block
\* is written after something of a later block.
C12_BlocksInFixedOrder ==
    /\ \A i, j \in DOMAIN writer :
          i < j =>
             /\ BlockRank(writer[i].block) <= BlockRank(writer[j].block)
             /\ (BlockRank(writer[i].block) = BlockRank(writer[j].block)
                 /\ writer[i].block \in {"import", "declaration", "synopsis", "namespace",
                                         "exportWarning", "export"})
                => writer[i].entity <= writer[j].entity
    /\ (gpc # "start") =>
          /\ writer[1].block = "header"
          /\ writer[2].block = "fence"
          /\ Len(BlockTexts("header")) = 1
          /\ Len(BlockTexts("fence")) = 1
          /\ IsSortedReferences(BlockTexts("typeDirective"), "types",
                                reportConfig.package.dtsTypeReferenceDirectives)
          /\ IsSortedReferences(BlockTexts("libDirective"), "lib",
                                reportConfig.package.dtsLibReferenceDirectives)
          /\ Len(BlockTexts("import"))
                = Cardinality({e \in DOMAIN entities : entities[e].astEntity = "AstImport"})
    /\ (gpc = "returned") =>
          /\ writer[Len(writer)] = Call("writeLine", "closingFence", 0, Fence)
          /\ Len(BlockTexts("closingFence")) = 2
          /\ Len(BlockTexts("starExport"))
                = Len(reportConfig.package.starExportedExternalModulePaths)
          /\ (BlockTexts("noPackageDoc") # <<>>) <=> ~reportConfig.package.hasTsdocComment
          /\ (BlockTexts("unassociated") # <<>>)
                <=> (reportConfig.package.unassociatedMessages # <<>>)

\* A report was returned that holds every kind of block: both kinds of directive,
\* an import, the export of the imported entity before the declaration of the
\* entity after it, a star export, unassociated diagnostics and the note.
C12_Witness ==
    /\ gpc = "returned"
    /\ Len(entities) = 2
    /\ \A b \in {"typeDirective", "libDirective", "import", "declaration", "synopsis",
                 "export", "starExport", "unassociated", "noPackageDoc"} :
          BlockTexts(b) # <<>>
    /\ \E i, j \in DOMAIN writer :
          /\ i < j
          /\ writer[i].block = "export" /\ writer[i].entity = 1
          /\ writer[j].block = "declaration" /\ writer[j].entity = 2


(***************************************************************************)
(* Where the messages of a declaration are rendered                        *)
(***************************************************************************)
\* The message names an export for which the entity gets an export statement
HasOwnClause(ent, message) ==
    /\ message.exportName # ""
    /\ ~ent.shouldInlineExport
    /\ \E k \in DOMAIN ent.exportNames : ent.exportNames[k] = message.exportName

\* The writer calls that render a message as warning comment lines above an
\* export statement of entity e
WarningCalls(e, message) ==
    commentCalls("exportWarning", e, WarningLines(message))

\* The places of the writer log where the message is rendered above an export
\* statement of entity e
RenderedAboveClauseAt(e, message) ==
    {k \in DOMAIN writer :
        /\ k + Len(WarningCalls(e, message)) - 1 <= Len(writer)
        /\ \A i \in DOMAIN WarningCalls(e, message) :
              writer[k + i - 1] = WarningCalls(e, message)[i]}

\* The export statement that follows place k of the log, with nothing but warning
\* comment lines in between
ClauseBelow(e, k) ==
    LET later == {j \in DOMAIN writer : j > k /\ writer[j].block # "exportWarning"}
    IN IF later = {} THEN <<>>
       ELSE LET j == CHOOSE i \in later : \A h \in later : i <= h
            IN IF writer[j].block = "export" /\ writer[j].entity = e /\ writer[j].op = "writeLine"
               THEN <<writer[j].text>> ELSE <<>>

\* The synopsis written for declaration d of entity e (the d-th write of a synopsis
\* for that entity)
SynopsisWritten(e, d) ==
    SelectSeq(writer, LAMBDA c : c.block = "synopsis" /\ c.entity = e)[d].text

\* The synopsis of a declaration that renders exactly the given messages
SynopsisOf(decl, messages) == SynopsisText(getAedocSynopsis(decl.meta[1], messages))

\* The entities whose block was written in full
Written ==
    {e \in Entered : /\ (gpc = "failed" => e < entityIndex)
                     /\ isEmitted(reportConfig, entities[e])
                     /\ entities[e].astEntity = "AstSymbol"}

\* C13: every message fetched for a declaration of an entity is rendered exactly
\* once. A message that names an export for which the entity has an export
\* statement of its own is rendered directly above that statement, after all the
\* declaration text of the entity, and not in the synopsis of the declaration;
\* every other message is rendered in the synopsis of its declaration and above
\* no export statement.
C13_EachMessageRenderedOnce ==
    \A e \in Written :
        \A d \in DOMAIN entities[e].astDeclarations :
            LET ent == entities[e]
                decl == ent.astDeclarations[d]
            IN /\ SynopsisWritten(e, d)
                     = SynopsisOf(decl, SelectSeq(decl.messages,
                                                  LAMBDA m : ~HasOwnClause(ent, m)))
               /\ \A i \in DOMAIN decl.messages :
                     LET m == decl.messages[i]
                         places == RenderedAboveClauseAt(e, m)
                     IN IF HasOwnClause(ent, m)
                        THEN /\ Cardinality(places) = 1
                             /\ \A k \in places :
                                   /\ ClauseBelow(e, k) = <<emitNamedExport(m.exportName, ent, e)[1].text>>
                                   /\ \A j \in DOMAIN writer :
                                         (writer[j].entity = e
                                          /\ writer[j].block \in {"synopsis", "declaration"})
                                         => j < k
                        ELSE places = {}

\* A report was returned whose first entity is not inlined and has the three
\* messages (one went above the export statement, two into the synopsis), and
\* whose second entity is inlined and has the three messages in its synopsis.
C13_Witness ==
    /\ gpc = "returned"
    /\ Len(entities) = 2
    /\ Written = {1, 2}
    /\ ~entities[1].shouldInlineExport /\ Len(entities[1].astDeclarations[1].messages) = 3
    /\ entities[2].shouldInlineExport /\ Len(entities[2].astDeclarations[1].messages) = 3
    /\ RenderedAboveClauseAt(1, entities[1].astDeclarations[1].messages[2]) # {}
    /\ SynopsisWritten(2, 1)
          = SynopsisOf(entities[2].astDeclarations[1], entities[2].astDeclarations[1].messages)

(***************************************************************************)
(* SpecScoped: a ScopedCommandLineAction is constructed, and                *)
(* onDefineParameters, _processParsedData and _execute are called on it in *)
(* any order; _execute is followed through its two awaits.                 *)
(***************************************************************************)
InitScoped ==
    /\ IdleFilter
    /\ IdleModify
    /\ IdleSynopsis
    /\ IdleEquiv
    /\ IdleReport
    /\ IdleTrim
    /\ argv \in ArgLists
    /\ hasScopingParameters \in BOOLEAN
    /\ unscopedParserOptions = <<>>
    /\ scopedCommandLineParser = <<>>
    /\ remainder = <<>>
    /\ scopedArgs = <<>>
    /\ onExecuteCalls = 0
    /\ scopedError = ""
    /\ scopedPc = "idle"
    /\ IdleShrinkwrap

OtherThanScoped == <<filterVars, modifyVars, synopsisVars, equivVars, reportVars, trimVars, shrinkwrapVars>>

\* ScopedCommandLineAction.onDefineParameters
DefineParameters ==
    /\ scopedPc = "idle"
    /\ IF ~hasScopingParameters
       THEN /\ scopedError' = "No scoping parameters defined."
            /\ UNCHANGED remainder
       ELSE IF remainder # <<>>
       THEN /\ scopedError' = "Unscoped remainder parameters are not allowed."
            /\ UNCHANGED remainder
       ELSE /\ remainder' = <<[values |-> <<>>]>>
            /\ UNCHANGED scopedError
    /\ UNCHANGED <<shrinkwrapVars, argv, hasScopingParameters, unscopedParserOptions,
                   scopedCommandLineParser, scopedArgs, onExecuteCalls, scopedPc>>
    /\ UNCHANGED OtherThanScoped

\* ScopedCommandLineAction._processParsedData: the remainder gets the values
\* parsed from the command line, and the scoped parser is created
ProcessParsedData ==
    /\ scopedPc = "idle"
    /\ remainder' = IF remainder = <<>> THEN <<>> ELSE <<[values |-> argv]>>
    /\ unscopedParserOptions' = <<"options">>
    /\ scopedCommandLineParser' = <<NewScopedParser>>
    /\ UNCHANGED <<shrinkwrapVars, argv, hasScopingParameters, scopedArgs, onExecuteCalls, scopedError,
                   scopedPc>>
    /\ UNCHANGED OtherThanScoped

\* The outcome of the first part of _execute
AfterChecks(checked) ==
    /\ scopedArgs' = checked.scopedArgs
    /\ scopedError' = checked.error
    /\ scopedPc' = IF checked.error # "" THEN "threw" ELSE "parsing"

\* _execute, up to its first await
ExecuteBegins ==
    /\ scopedPc = "idle"
    /\ AfterChecks(scopedArgsOf(unscopedParserOptions, scopedCommandLineParser, remainder))
    /\ UNCHANGED <<shrinkwrapVars, argv, hasScopingParameters, unscopedParserOptions,
                   scopedCommandLineParser, remainder, onExecuteCalls>>
    /\ UNCHANGED OtherThanScoped

\* await this._scopedCommandLineParser.executeWithoutErrorHandling(scopedArgs)
ScopedParserRuns ==
    /\ scopedPc = "parsing"
    /\ \E outcome \in ParserOutcomes :
          /\ scopedCommandLineParser'
                = <<executeWithoutErrorHandling(scopedCommandLineParser[1], scopedArgs, outcome)>>
          /\ scopedPc' = IF outcome = "threw" THEN "threw" ELSE "parsed"
          /\ scopedError' = IF outcome = "threw" THEN "CommandLineParserExitError" ELSE ""
    /\ UNCHANGED <<shrinkwrapVars, argv, hasScopingParameters, unscopedParserOptions, remainder,
                   scopedArgs, onExecuteCalls>>
    /\ UNCHANGED OtherThanScoped

\* if (this._scopedCommandLineParser.canExecute) { await super._execute(); }
ExecuteEnds ==
    /\ scopedPc = "parsed"
    /\ onExecuteCalls' = IF scopedCommandLineParser[1].canExecute
                         THEN onExecuteCalls + 1 ELSE onExecuteCalls
    /\ scopedPc' = "done"
    /\ UNCHANGED <<shrinkwrapVars, argv, hasScopingParameters, unscopedParserOptions,
                   scopedCommandLineParser, remainder, scopedArgs, scopedError>>
    /\ UNCHANGED OtherThanScoped

NextScoped ==
    DefineParameters \/ ProcessParsedData \/ ExecuteBegins \/ ScopedParserRuns \/ ExecuteEnds

SpecScoped == InitScoped /\ [][NextScoped]_vars

\* _execute has ended, by returning or by throwing
ExecuteOver == scopedPc \in {"done", "threw"}

\* _processParsedData was called before _execute
WasProcessed == unscopedParserOptions # <<>> /\ scopedCommandLineParser # <<>>

\* Remainder values were given and the first of them is not the separator
LacksSeparator ==
    /\ remainder # <<>>
    /\ Len(remainder[1].values) > 0
    /\ remainder[1].values[1] # "--"

\* The scoped parser was run and reached its execute stage
ParserReachedExecute ==
    /\ scopedCommandLineParser # <<>>
    /\ scopedCommandLineParser[1].outcome = "executed"
    /\ scopedCommandLineParser[1].canExecute

\* C14: the action's onExecute runs only after the scoped parser has parsed the
\* scoped arguments (the remainder values after the separator) and reached its
\* execute stage, and at most once; when _processParsedData was not called before
\* _execute, or remainder values were given whose first is not '--', or the scoped
\* parser exited early or threw, onExecute is never invoked.
C14_OnExecuteOnlyAfterScopedParse ==
    /\ onExecuteCalls <= 1
    /\ (onExecuteCalls > 0) =>
          /\ scopedPc = "done"
          /\ WasProcessed
          /\ remainder # <<>>
          /\ ~LacksSeparator
          /\ ParserReachedExecute
          /\ scopedCommandLineParser[1].args
                = <<IF remainder[1].values = <<>> THEN <<>> ELSE Tail(remainder[1].values)>>
    /\ (ExecuteOver /\ (~WasProcessed \/ LacksSeparator \/ ~ParserReachedExecute)) =>
          onExecuteCalls = 0
    /\ (scopedPc = "done" /\ scopedCommandLineParser[1].outcome = "executed") =>
          onExecuteCalls = 1
    /\ (scopedPc = "threw" /\ LacksSeparator /\ WasProcessed) =>
          /\ scopedError = UsageError(remainder[1].values[1])
          /\ scopedCommandLineParser[1].outcome = ""

\* onExecute ran after the scoped parser parsed the one argument that followed
\* the separator.
C14_Witness ==
    /\ scopedPc = "done"
    /\ onExecuteCalls = 1
    /\ remainder = <<[values |-> <<"--", "--verbose">>]>>
    /\ scopedCommandLineParser[1].args = <<<<"--verbose">>>>

\* The three ways in which onExecute is not reached: _execute before
\* _processParsedData, a remainder without the separator, a scoped parser that
\* exited early
C14_WitnessNotInvoked ==
    \/ scopedPc = "threw" /\ ~WasProcessed /\ onExecuteCalls = 0
    \/ scopedPc = "threw" /\ WasProcessed /\ LacksSeparator /\ onExecuteCalls = 0
    \/ scopedPc = "done" /\ ~ParserReachedExecute /\ onExecuteCalls = 0


(***************************************************************************)
(* _modifySpan on a span the filter rejects                                *)
(***************************************************************************)
\* The spans _modifySpan was called on with a declaration the filter rejected
RejectedSpans ==
    {spanState.log[i].span : i \in {j \in FilterEvents : spanState.log[j].verdict = Return(FALSE)}}

\* The spans strictly inside a span
DescendantsOf(n) == {x \in NodesOf(tree) : x # n /\ IsWithin(tree, x, n)}

\* C15: when _modifySpan is called on a span whose declaration the visibility
\* filter rejects, it skips that span and returns without recursing: the span has
\* the skip-all modification, every span inside it keeps its untouched
\* modification, the filter was asked about no declaration inside it and no
\* synopsis was computed (and no issue raised) for the span or anything inside it,
\* and the writer writes nothing for the span or from inside it.
C15_RejectedSpanSkipped ==
    ~IsPreapproved =>
        \A r \in RejectedSpans :
            /\ spanState.mods[r] = skipAll(NewModification(tree)[r])
            /\ \A x \in DescendantsOf(r) : spanState.mods[x] = NewModification(tree)[x]
            /\ \A i \in DOMAIN spanState.log :
                  /\ spanState.log[i].span \notin DescendantsOf(r)
                  /\ spanState.log[i].op = "synopsis" => spanState.log[i].span # r
            /\ \A k \in DOMAIN spanState.issues : ~IsWithin(tree, spanState.issues[k], r)
            /\ (spc = "written") =>
                  \A i \in DOMAIN written : ~IsWithin(tree, written[i].span, r)

\* An interface was written whose member "inner" (a property with a type literal
\* that holds a declaration of its own) is below the threshold while the
\* interface and its other member are included.
C15_Witness ==
    /\ spc = "written" /\ ~IsPreapproved /\ tree = InterfaceShape
    /\ RejectedSpans = {6}
    /\ PrivateDecls = {}
    /\ DescendantsOf(6) \cap DeclNodes(tree) # {}
    /\ \E i \in DOMAIN written : IsWithin(tree, written[i].span, 19)


(***************************************************************************)
(* The export modifier of a declaration                                    *)
(***************************************************************************)
\* The spans of a kind among kinds that _modifySpan visited with a declaration
\* the filter accepted
VisitedOfKind(kinds) ==
    {spanState.log[i].span :
        i \in {j \in FilterEvents : /\ spanState.log[j].verdict = Return(TRUE)
                                    /\ tree.nodes[spanState.log[j].span].kind \in kinds}}

\* The span that takes the export modifier of a keyword span
ModifierTarget(keyword) ==
    LET previousSpan == previousSibling(tree, keyword)
    IN IF previousSpan # 0 /\ tree.nodes[previousSpan].kind = "SyntaxList"
       THEN previousSpan ELSE keyword

\* What the writer wrote as the prefix of a span ("" for nothing)
WrittenPrefix(n) ==
    LET at == {i \in DOMAIN written : written[i].span = n /\ written[i].part = "prefix"}
    IN IF at = {} THEN "" ELSE written[CHOOSE i \in at : TRUE].text

\* C16: for every keyword span that introduces a declaration (interface, class,
\* enum, namespace, module, type, function) and is visited by _modifySpan, the
\* text "export " is prepended if and only if entity.shouldInlineExport: to the
\* prefix of the preceding sibling when that is a SyntaxList, else to the prefix of
\* the keyword span itself, in front of the prefix that was there, and no other
\* prefix of the two changes; the original export, declare and default keyword
\* spans are skipped and nothing of them is written.
C16_ExportModifier ==
    ~IsPreapproved =>
        /\ \A k \in VisitedOfKind(KeywordKinds) :
              /\ spanState.mods[ModifierTarget(k)].prefix
                    = (IF entity.shouldInlineExport THEN "export " ELSE "")
                      \o NewModification(tree)[ModifierTarget(k)].prefix
              /\ (ModifierTarget(k) # k) =>
                    spanState.mods[k].prefix = NewModification(tree)[k].prefix
              /\ (spc = "written") =>
                    WrittenPrefix(ModifierTarget(k)) = spanState.mods[ModifierTarget(k)].prefix
        /\ \A x \in VisitedOfKind({"ExportKeyword", "DefaultKeyword", "DeclareKeyword"}) :
              /\ spanState.mods[x] = skipAll(NewModification(tree)[x])
              /\ \A i \in DOMAIN written : written[i].span # x

\* A class with inlined export was written: its modifier list, which held the
\* skipped export and declare keywords, wrote "export " before the class keyword.
C16_Witness ==
    /\ spc = "written" /\ ~IsPreapproved /\ tree = ClassShape
    /\ entity.shouldInlineExport
    /\ VisitedOfKind(KeywordKinds) = {6}
    /\ VisitedOfKind({"ExportKeyword", "DefaultKeyword", "DeclareKeyword"}) = {4, 5}
    /\ WrittenPrefix(3) = "export "
    /\ WrittenPrefix(6) = "class"

\* An interface (no modifier list before its keyword) was written, once with the
\* export inlined and once without
C16_WitnessOwnPrefix ==
    /\ spc = "written" /\ ~IsPreapproved /\ tree = InterfaceShape
    /\ WrittenPrefix(2) = IF entity.shouldInlineExport THEN "export interface" ELSE "interface"


(***************************************************************************)
(* Which spans are sorted                                                  *)
(***************************************************************************)
\* The SyntaxList spans whose parent span is of a supported declaration kind or a
\* ModuleBlock
SortableLists ==
    {n \in NodesOf(tree) :
        /\ tree.nodes[n].kind = "SyntaxList"
        /\ tree.nodes[n].parent # 0
        /\ \/ isSupportedSyntaxKind(tree.nodes[tree.nodes[n].parent].kind)
           \/ tree.nodes[tree.nodes[n].parent].kind = "ModuleBlock"}

\* The filter accepts the declaration
Accepted(d) == FilterOf(ModifyCtx, d) = Return(TRUE)

\* _modifySpan gets to the span: the filter accepts every declaration around it
Reached(n) == \A d \in DeclNodes(tree) : IsWithin(tree, n, d) => Accepted(d)

\* The children of a span that are declarations of a supported kind
ChildDeclarations(n) ==
    {tree.nodes[n].children[k] : k \in DOMAIN tree.nodes[n].children} \cap DeclNodes(tree)

\* _modifySpan ran to its end on a declaration the filter accepts
ModifiedIncluded == spc \in {"modified", "written"} /\ ~IsPreapproved /\ Accepted(1)

\* C17 as stated: after _modifySpan on an included declaration every SyntaxList
\* span whose parent is of a supported declaration kind or a ModuleBlock is marked
\* sortChildren, each of its children of a supported declaration kind has the sort
\* key of its local name, and no other span has sortChildren or a sort key.
C17_EverySortableListMarked ==
    ModifiedIncluded =>
        \A n \in NodesOf(tree) :
            /\ spanState.mods[n].sortChildren <=> n \in SortableLists
            /\ spanState.mods[n].sortKey =
                  IF n \in DeclNodes(tree) /\ tree.nodes[n].parent \in SortableLists
                  THEN getSortKeyIgnoringUnderscore(tree.nodes[n].localName)
                  ELSE Undefined

\* C17 (amended): after _modifySpan on an included declaration, a span is marked
\* sortChildren exactly when it is a SyntaxList that _modifySpan got to, whose
\* parent is of a supported declaration kind or a ModuleBlock, and that has a
\* child declaration the filter accepts; a span has a sort key exactly when it is
\* such an accepted child declaration of such a list, and the key is the
\* leading-underscore-insensitive sort key of its local name.
C17_SortMarksAcceptedChildren ==
    ModifiedIncluded =>
        \A n \in NodesOf(tree) :
            /\ spanState.mods[n].sortChildren <=>
                  /\ n \in SortableLists
                  /\ Reached(n)
                  /\ \E c \in ChildDeclarations(n) : Accepted(c)
            /\ spanState.mods[n].sortKey =
                  IF /\ n \in DeclNodes(tree)
                     /\ tree.nodes[n].parent \in SortableLists
                     /\ Reached(n)
                  THEN getSortKeyIgnoringUnderscore(tree.nodes[n].localName)
                  ELSE Undefined

\* A class was written whose member list is marked and whose modifier list is
\* not; of the two members the private one has no sort key.
C17_Witness ==
    /\ spc = "written" /\ ~IsPreapproved /\ tree = ClassShape
    /\ SortableLists = {3, 9}
    /\ spanState.mods[9].sortChildren /\ ~spanState.mods[3].sortChildren
    /\ ~Accepted(10) /\ spanState.mods[10].sortKey = Undefined
    /\ spanState.mods[16].sortKey = "size*size*_size"

\* A namespace was written whose two functions are both accepted and are written
\* in the order of their sort keys.
C17_WitnessNamespace ==
    /\ spc = "written" /\ ~IsPreapproved /\ tree = NamespaceShape
    /\ spanState.mods[9].sortChildren
    /\ spanState.mods[10].sortKey = "zeta*zeta"
    /\ spanState.mods[18].sortKey = "alpha*alpha*_alpha"


(***************************************************************************)
(* Declarations inside a type literal                                      *)
(***************************************************************************)
\* The span is a TypeLiteral or lies inside one
InsideTypeLiteral(n) ==
    \E a \in NodesOf(tree) : tree.nodes[a].kind = "TypeLiteral" /\ IsWithin(tree, n, a)

\* The places of the log where a synopsis was computed for a declaration
SynopsisEvents(d) ==
    {i \in DOMAIN spanState.log : spanState.log[i].op = "synopsis" /\ spanState.log[i].decl = d}

\* The synopsis _getAedocSynopsis gives for a nested declaration
NestedSynopsis(d) == SynopsisText(getAedocSynopsis(collector.meta[d], collector.messages[d]))

\* C18: the type literal flag holds for the subtree of the type literal only. A
\* declaration inside a TypeLiteral span never gets a synopsis in front of its
\* prefix, no synopsis is computed for it and no issue is raised for it; every
\* nested declaration that the filter accepts, that _modifySpan gets to and that
\* is inside no TypeLiteral - also one that comes after a type literal - has its
\* synopsis, computed once, in front of its prefix.
C18_TypeLiteralScoped ==
    (spc \in {"modified", "written"} /\ ~IsPreapproved) =>
        \A d \in DeclNodes(tree) \ {1} :
            IF InsideTypeLiteral(d)
            THEN /\ SynopsisEvents(d) = {}
                 /\ \A k \in DOMAIN spanState.issues : spanState.issues[k] # d
                 /\ Reached(d) => spanState.mods[d].prefix = NewModification(tree)[d].prefix
            ELSE Reached(d) =>
                    /\ Cardinality(SynopsisEvents(d)) = 1
                    /\ spanState.mods[d].prefix
                          = NestedSynopsis(d) \o NewModification(tree)[d].prefix

\* An interface was written whose three nested declarations are accepted and
\* undocumented: "inner" and "area", the member after the type literal, carry the
\* synopsis; "x", inside the type literal of "inner", does not.
C18_Witness ==
    /\ spc = "written" /\ tree = InterfaceShape /\ ~IsPreapproved
    /\ \A d \in {6, 12, 19} : Reached(d) /\ collector.meta[d].undocumented
    /\ InsideTypeLiteral(12) /\ ~InsideTypeLiteral(19)
    /\ NestedSynopsis(12) # ""
    /\ spanState.mods[12].prefix = ""
    /\ WrittenPrefix(12) = ""
    /\ WrittenPrefix(6) = "// (undocumented)\n"
    /\ WrittenPrefix(19) = "// (undocumented)\n"


(***************************************************************************)
(* Pre-approved declarations                                               *)
(***************************************************************************)
RootChildren == tree.nodes[1].children

\* The place of the first Identifier among the children of the root (0: none)
FirstIdentifierAt ==
    LET at == {i \in DOMAIN RootChildren : tree.nodes[RootChildren[i]].kind = "Identifier"}
    IN IF at = {} THEN 0 ELSE CHOOSE i \in at : \A j \in at : i <= j

\* The writes that carry the given text
PiecesWith(text) == {i \in DOMAIN written : written[i].text = text}

PreapprovedDone == IsPreapproved /\ spc \in {"modified", "written"}

\* What the pre-approved policy leaves of the spans, with the given marker
CollapsedWith(marker) ==
    /\ \A n \in NodesOf(tree) :
          (\A i \in DOMAIN RootChildren : RootChildren[i] # n) =>
              spanState.mods[n] = NewModification(tree)[n]
    /\ \A i \in DOMAIN RootChildren :
          LET child == RootChildren[i]
              kind == tree.nodes[child].kind
              untouched == NewModification(tree)[child]
          IN spanState.mods[child] =
                IF kind \in {"SyntaxList", "JSDocComment"}
                   \/ (FirstIdentifierAt # 0 /\ i > FirstIdentifierAt)
                THEN skipAll(untouched)
                ELSE IF i = FirstIdentifierAt
                THEN [untouched EXCEPT !.suffix = marker, !.omitSeparatorAfter = TRUE]
                ELSE untouched
    /\ (spc = "written" /\ FirstIdentifierAt # 0) =>
          /\ Cardinality(PiecesWith(marker)) = 1
          /\ \A i \in DOMAIN written :
                \/ written[i].span = 1
                \/ \E k \in 1..FirstIdentifierAt : written[i].span = RootChildren[k]

\* C19 as stated: the marker put after the first Identifier child is
\* "{ /* collapsed */ }".
C19_CollapsedMarker == PreapprovedDone => CollapsedWith("{ /* collapsed */ }")

\* C19 (amended): for a pre-approved declaration _modifySpanForPreapproved touches
\* only direct children of the root span: every SyntaxList and JSDocComment child
\* and every child after the first Identifier child is skipped, the first
\* Identifier child keeps its text, drops the separator after it and gets the
\* suffix " { /* (preapproved) */ }" (a space, then the marker); what is written
\* holds the marker once and nothing of the spans after the identifier.
C19_PreapprovedMarker == PreapprovedDone => CollapsedWith(" { /* (preapproved) */ }")

\* A pre-approved class was written as its keyword, its name and the marker.
C19_Witness ==
    /\ spc = "written" /\ IsPreapproved /\ tree = ClassShape
    /\ FirstIdentifierAt = 4
    /\ PiecesText(written) = "class Widget { /* (preapproved) */ }"


(***************************************************************************)
(* The order of the lines of a synopsis                                    *)
(***************************************************************************)
\* The markers of a synopsis line, in the order in which the line lists them
MarkerOrder ==
    <<"@internal", "@alpha", "@beta", "@public", "@sealed", "@virtual", "@override",
      "@eventProperty", "@deprecated", "(undocumented)">>

\* The markers that apply to a declaration
MarkersOf(meta) ==
    {mk \in {MarkerOrder[k] : k \in DOMAIN MarkerOrder} :
        \/ /\ mk \in TagNames
           /\ ~meta.releaseTagSameAsParent
           /\ meta.effectiveReleaseTag # ReleaseTag_None
           /\ mk = getTagName(meta.effectiveReleaseTag)
        \/ mk = "@sealed" /\ meta.isSealed
        \/ mk = "@virtual" /\ meta.isVirtual
        \/ mk = "@override" /\ meta.isOverride
        \/ mk = "@eventProperty" /\ meta.isEventProperty
        \/ mk = "@deprecated" /\ meta.isDeprecated
        \/ mk = "(undocumented)" /\ meta.undocumented}

\* The comment lines of one diagnostic: "Warning: " before its first line
WarningComment(message) ==
    <<"// Warning: " \o message.lines[1] \o "\n">>
    \o [k \in 1..(Len(message.lines) - 1) |-> "// " \o message.lines[k + 1] \o "\n"]

\* The warning comments of the messages, in input order
RECURSIVE WarningComments(_)
WarningComments(messages) ==
    IF messages = <<>> THEN <<>>
    ELSE WarningComment(Head(messages)) \o WarningComments(Tail(messages))

\* The marker line of a declaration (none when it is ancillary or no marker applies)
MarkerLine(meta) ==
    IF meta.isAncillary \/ MarkersOf(meta) = {} THEN <<>>
    ELSE <<"// " \o Join(SelectSeq(MarkerOrder, LAMBDA mk : mk \in MarkersOf(meta)), " ")
           \o "\n">>

\* C20: _getAedocSynopsis emits its lines in a fixed order: first one "Warning:"
\* comment per message, in input order; then, only for a declaration that is not
\* ancillary and only if a marker applies, one marker line that lists, in this
\* order, the tag name, @sealed, @virtual, @override, @eventProperty, @deprecated
\* and (undocumented); a blank comment line stands between the two exactly when
\* there are both; an ancillary declaration gets no marker line.
C20_SynopsisLineOrder ==
    synopsisResult.computed =>
        LET meta == synopsisInput.meta
            messages == synopsisInput.messages
        IN /\ synopsisResult.synopsis.lines
                 = WarningComments(messages)
                   \o (IF messages # <<>> /\ MarkerLine(meta) # <<>> THEN <<"// \n">> ELSE <<>>)
                   \o MarkerLine(meta)
           /\ meta.isAncillary => synopsisResult.synopsis.lines = WarningComments(messages)

\* The synopsis of a declaration to which every marker applies and that has two
\* messages, the second of two lines: three warning lines, the blank comment
\* line, the marker line.
C20_Witness ==
    /\ synopsisResult.computed
    /\ synopsisInput.messages = <<OneLineMessage, TwoLineMessage>>
    /\ synopsisResult.synopsis.lines =
          <<"// Warning: ae-forgotten-export: The symbol needs to be exported\n",
            "// Warning: TS2304: Cannot find name\n",
            "//   in the heritage clause\n",
            "// \n",
            "// @beta @sealed @virtual @override @eventProperty @deprecated (undocumented)\n">>

\* An ancillary declaration to which markers would apply got its warning only.
C20_WitnessAncillary ==
    /\ synopsisResult.computed
    /\ synopsisInput.meta.isAncillary /\ synopsisInput.meta.undocumented
    /\ synopsisResult.synopsis.lines
          = <<"// Warning: ae-forgotten-export: The symbol needs to be exported\n">>


(***************************************************************************)
(* The issue raised for a declaration without documentation                *)
(***************************************************************************)
\* The places of the issue list that name a declaration
IssuesFor(d) == {k \in DOMAIN spanState.issues : spanState.issues[k] = d}

\* The filter was asked about the declaration
FilterAsked(d) == \E i \in FilterEvents : spanState.log[i].decl = d

\* The synopsis of the declaration lists "(undocumented)"
ListsUndocumented(d) ==
    LET parts == getAedocSynopsis(collector.meta[d], collector.messages[d]).parts
    IN \E k \in DOMAIN parts : parts[k] = "(undocumented)"

\* The declaration has no documentation and is not ancillary
LacksDocumentation(d) == collector.meta[d].undocumented /\ ~collector.meta[d].isAncillary

RewriteDone == spc \in {"modified", "written"}

\* C21 as stated: the issue is raised exactly once, and the synopsis computed
\* exactly once, for every nested declaration that is visited for inclusion (the
\* filter is asked about it), has no documentation and is not ancillary - whether
\* or not its text is emitted.
C21_RaisedForEveryVisited ==
    RewriteDone =>
        \A d \in DeclNodes(tree) \ {1} :
            (FilterAsked(d) /\ LacksDocumentation(d)) =>
                /\ Cardinality(SynopsisEvents(d)) = 1
                /\ Cardinality(IssuesFor(d)) = 1

\* C21 (amended): for a nested declaration the synopsis is computed at most once,
\* and exactly once when the filter accepts it, _modifySpan gets to it and it is
\* inside no type literal; the issue is raised at most once, and exactly when the
\* synopsis is computed and lists "(undocumented)", that is when the declaration
\* has no documentation and is not ancillary. A nested declaration that the filter
\* rejects, or that is inside a type literal, or whose root is pre-approved, gets
\* no synopsis and no issue.
C21_RaisedWithSynopsis ==
    RewriteDone =>
        \A d \in DeclNodes(tree) \ {1} :
            /\ Cardinality(SynopsisEvents(d))
                  = IF ~IsPreapproved /\ Reached(d) /\ ~InsideTypeLiteral(d) THEN 1 ELSE 0
            /\ Cardinality(IssuesFor(d))
                  = IF SynopsisEvents(d) # {} /\ ListsUndocumented(d) THEN 1 ELSE 0
            /\ ListsUndocumented(d) <=> LacksDocumentation(d)
            /\ (IssuesFor(d) # {}) =>
                  \E i \in SynopsisEvents(d) : spanState.log[i].verdict = Return(TRUE)

\* An interface was written whose three nested declarations have no
\* documentation: the issue was raised for "inner" alone - "x" is inside the type
\* literal, and "area" is private, so the filter rejected it.
C21_Witness ==
    /\ spc = "written" /\ ~IsPreapproved /\ tree = InterfaceShape
    /\ \A d \in {6, 12, 19} : LacksDocumentation(d) /\ FilterAsked(d)
    /\ Accepted(6) /\ Accepted(12) /\ ~Accepted(19)
    /\ spanState.issues = <<6>>


(***************************************************************************)
(* How the export of an entity is marked                                   *)
(***************************************************************************)
\* The entities whose block was written in full
EmittedEntities ==
    {e \in Entered : /\ (gpc = "failed" => e < entityIndex)
                     /\ isEmitted(reportConfig, entities[e])}

\* The export statements written for an entity, in the order written
ExportStatements(e) ==
    LET calls == SelectSeq(writer, LAMBDA c : c.block = "export" /\ c.entity = e
                                              /\ c.op = "writeLine")
    IN [k \in DOMAIN calls |-> calls[k].text]

\* The text written for the declarations of an entity, in the order written
DeclarationTexts(e) ==
    LET calls == SelectSeq(writer, LAMBDA c : c.block = "declaration" /\ c.entity = e
                                              /\ c.op = "writeModifiedText")
    IN [k \in DOMAIN calls |-> calls[k].text]

\* The text of a declaration when the export of its entity is not inlined
TextWithoutExport(ent, decl) ==
    PiecesText(writeModifiedText(decl.tree,
                   modifiedSpan(reportConfig, [ent EXCEPT !.shouldInlineExport = FALSE],
                                decl).mods, 1))

\* One export statement per export name, and none when the export is inlined
ExportStatementsMatch(e) ==
    LET ent == entities[e]
    IN IF ent.shouldInlineExport
       THEN ExportStatements(e) = <<>>
       ELSE /\ Len(ExportStatements(e)) = Len(ent.exportNames)
            /\ \A k \in DOMAIN ent.exportNames :
                  ExportStatements(e)[k] = emitNamedExport(ent.exportNames[k], ent, e)[1].text

\* The declarations of the entity whose text is emitted
EmittedDeclarations(e) ==
    {d \in DOMAIN entities[e].astDeclarations :
        TextWithoutExport(entities[e], entities[e].astDeclarations[d]) # ""}

C22_WitnessNotInlined ==
    /\ gpc = "returned"
    /\ Len(entities) = 2
    /\ entities[1] = ClassEntity(FALSE, FALSE)
    /\ entities[2].astEntity = "AstSymbol" /\ entities[2].nameForEmit = "count"
    /\ ~entities[2].shouldInlineExport /\ 2 \in EmittedEntities
    /\ ExportStatements(1) = <<"export { Widget }">>
    /\ ExportStatements(2) = <<"export { count }">>
    /\ DeclarationTexts(2) = <<"const count: number;">>

(***************************************************************************)
(* SpecShrinkwrap: a package manager name, a file name and a file content  *)
(* are drawn; each factory is called once with them, in either order.      *)
(***************************************************************************)

\* the names a rush.json can hold: the four of PackageManagerName and two
\* strings outside it
PackageManagerChoices == {"npm", "pnpm", "yarn", "bun", "deno", "NPM"}

ShrinkwrapFilenames == {"npm-shrinkwrap.json", "pnpm-lock.yaml", "yarn.lock"}

ShrinkwrapContents == {"{}", "lockfileVersion: 5.4"}

InitShrinkwrap ==
    /\ packageManager \in PackageManagerChoices
    /\ shrinkwrapFilename \in ShrinkwrapFilenames
    /\ shrinkwrapContent \in ShrinkwrapContents
    /\ getResult = NotCalled
    /\ parseResult = NotCalled
    /\ IdleFilter
    /\ IdleModify
    /\ IdleSynopsis
    /\ IdleEquiv
    /\ IdleReport
    /\ IdleTrim
    /\ IdleScoped

OtherThanShrinkwrap == <<filterVars, modifyVars, synopsisVars, equivVars, reportVars, trimVars, scopedVars>>

GetShrinkwrapFile ==
    /\ packageManager # ""
    /\ getResult = NotCalled
    /\ getResult' \in getShrinkwrapFile(packageManager, shrinkwrapFilename)
    /\ UNCHANGED <<packageManager, shrinkwrapFilename, shrinkwrapContent, parseResult>>
    /\ UNCHANGED OtherThanShrinkwrap

ParseShrinkwrapFile ==
    /\ packageManager # ""
    /\ parseResult = NotCalled
    /\ parseResult' \in parseShrinkwrapFile(packageManager, shrinkwrapContent)
    /\ UNCHANGED <<packageManager, shrinkwrapFilename, shrinkwrapContent, getResult>>
    /\ UNCHANGED OtherThanShrinkwrap

NextShrinkwrap ==
    \/ GetShrinkwrapFile
    \/ ParseShrinkwrapFile

SpecShrinkwrap == InitShrinkwrap /\ [][NextShrinkwrap]_vars

\* the factory threw 'Invalid package manager: <name>'
ThrewInvalid(result) ==
    /\ result.status = "thrown"
    /\ result.value = "Invalid package manager: " \o packageManager

\* C23: getShrinkwrapFile and parseShrinkwrapFile accept the same package
\* manager names: once both have been called with a name, one has thrown
\* 'Invalid package manager' if and only if the other has, and a factory that
\* did not throw was given one of the names the other accepts too (neither
\* returns undefined for a name that the other rejects).
C23_SameNamesAccepted ==
    (getResult # NotCalled /\ parseResult # NotCalled)
        => (ThrewInvalid(getResult) <=> ThrewInvalid(parseResult))

\* C23, the names both factories reject: a name that is none of npm, pnpm,
\* yarn and bun makes both throw, and neither returns undefined for it.
C23_UnknownNameThrows ==
    packageManager \notin {"", "npm", "pnpm", "yarn", "bun"}
        => /\ getResult # NotCalled => ThrewInvalid(getResult)
           /\ parseResult # NotCalled => ThrewInvalid(parseResult)

\* C23, the name on which the factories differ: with 'yarn' the file factory
\* has returned the loader's result and the string factory has thrown.
C23_YarnDiffers ==
    /\ packageManager = "yarn"
    /\ getResult.status = "returned" /\ getResult.value = "YarnShrinkwrapFile"
    /\ parseResult = InvalidPackageManager("yarn")

====
